---- MODULE Spec2Model ----
(***************************************************************************)
(* A model of pymediainfo (src/src/pymediainfo/__init__.py):               *)
(*   - MediaInfo.parse / MediaInfo.can_parse driving the native library    *)
(*     through ctypes, one native call per step, for several invocations   *)
(*     that run one after another (Spec) or concurrently (SpecConc);       *)
(*   - MediaInfo.__init__ / Track.__init__ building records from an        *)
(*     element tree (SpecDoc).                                             *)
(* Python values: None is <<>> and a present value x is <<x>> wherever an  *)
(* argument is optional; text that the code inspects character by          *)
(* character (file names, file modes, element text) is a sequence of       *)
(* one-character strings.                                                  *)
(***************************************************************************)
EXTENDS Integers, Sequences, FiniteSets, TLC

VARIABLES
    inv,          \* per thread: the frame of its parse / can_parse invocation
    libOptions,   \* the native library's option store (shared by all handles)
    handleState,  \* per native handle: "free", "new", "closed" or "deleted"
    started,      \* number of invocations started so far
    library,      \* what loading each candidate library file yields, in order
    job,          \* SpecConc: the parameters every concurrent invocation uses
    doc,          \* the element tree MediaInfo.__init__ parsed from its xml argument
    bld,          \* the frame of MediaInfo.__init__ and of the running Track.__init__
    model         \* the MediaInfo object, once built: its tracks

vars == <<inv, libOptions, handleState, started, library, job, doc, bld, model>>

engineVars == <<inv, libOptions, handleState, started, library, job>>
docVars == <<doc, bld, model>>

(***************************************************************************)
(* Bounds                                                                  *)
(***************************************************************************)
NumThreads == 2
MaxInvocations == 2
MaxFileSize == 1
MaxScript == 1
MaxTop == 2
MaxInFile == 2
MaxChildren == 3
MaxNamed == 2
MaxTracks == 3
FeedSize == 2
FeedScript == 2

Threads == 1..NumThreads
Handles == 1..(MaxInvocations + NumThreads)

None == <<>>
Some(x) == <<x>>
IsNone(v) == v = <<>>
Val(v) == v[1]

RECURSIVE SeqsUpTo(_, _)
SeqsUpTo(S, n) ==
    IF n = 0 THEN {<<>>}
    ELSE LET shorter == SeqsUpTo(S, n - 1)
         IN  shorter \cup {Append(s, x) : s \in {q \in shorter : Len(q) = n - 1}, x \in S}

(***************************************************************************)
(* Python helpers                                                          *)
(***************************************************************************)
\* `sub in s` for character sequences
Contains(s, sub) ==
    \E i \in 1..(Len(s) - Len(sub) + 1) : SubSeq(s, i, i + Len(sub) - 1) = sub

\* tuple comparison a >= b: lexicographic, a proper prefix is smaller
RECURSIVE TupleGE(_, _)
TupleGE(a, b) ==
    IF b = <<>> THEN TRUE
    ELSE IF a = <<>> THEN FALSE
    ELSE IF Head(a) # Head(b) THEN Head(a) > Head(b)
    ELSE TupleGE(Tail(a), Tail(b))

\* str(parse_speed) for the values used here
PyStr(x) ==
    CASE x = <<"float", 5>> -> "0.5"
      [] x = <<"int", 1>> -> "1"
      [] x = <<"float", 10>> -> "1.0"

(***************************************************************************)
(* The native library, as seen through its C interface                     *)
(***************************************************************************)
CustomKeys == {"Language"}
FixedKeys == {"Cover_Data", "CharSet", "Inform", "Complete", "ParseSpeed",
              "LegacyStreamDisplay"}
OptionKeys == FixedKeys \cup CustomKeys
Default == "<default>"
DefaultOptions == [k \in OptionKeys |-> Default]

\* MediaInfo_Option(handle, key, value) on the option store
NativeOption(store, key, value) ==
    IF key = "Reset" THEN DefaultOptions
    ELSE IF key \in OptionKeys THEN [store EXCEPT ![key] = value]
    ELSE store

\* MediaInfo_New(): a handle that is not in use
AvailableHandles(hs) == {h \in Handles : hs[h] \in {"free", "deleted"}}
SharedNativeNew(hs) == CHOOSE h \in Handles : \A g \in Handles : h <= g
NativeNew(hs) == CHOOSE h \in AvailableHandles(hs) : \A g \in AvailableHandles(hs) : h <= g

SENTINEL == -1

(***************************************************************************)
(* Parameters of an invocation                                             *)
(***************************************************************************)
\* what one MediaInfo_Open_Buffer_Continue answers: the finished bit of its
\* status, and what MediaInfo_Open_Buffer_Continue_GoTo_Get would then return
\* (when the finished bit is set the seek position is never asked for, so one
\* such answer with a seek request and one without stand for all of them)
Responses(size) ==
    [fin : {FALSE}, goto : {SENTINEL} \cup (0..size)]
    \cup [fin : {TRUE}, goto : {SENTINEL, 0}]
NoResponse == [fin |-> FALSE, goto |-> SENTINEL]

PathNames == { <<"a">>, <<"a", ":", "/">>, <<"a", ":", "/", "/", "b">> }
FileModes == { None, Some(<<"r", "b">>), Some(<<"r">>) }

PathSource(name, exists, openOk) ==
    [kind |-> "path", name |-> name, exists |-> exists, openOk |-> openOk,
     mode |-> None, size |-> 0, script |-> <<>>, readErr |-> FALSE, start |-> 0]
StreamSource(mode, size, script, readErr) ==
    [kind |-> "stream", name |-> <<>>, exists |-> TRUE, openOk |-> TRUE,
     mode |-> mode, size |-> size, script |-> script, readErr |-> readErr, start |-> 0]
\* a stream the caller has already read from: its position when parse is called
StartingAt(src, k) == [src EXCEPT !.start = k]

\* a path that is neither a URL nor an existing file cannot be opened
PathSources ==
    { PathSource(n, e, o) : n \in PathNames, e \in BOOLEAN, o \in BOOLEAN }
    \ { PathSource(n, FALSE, TRUE) : n \in {m \in PathNames : ~Contains(m, <<":", "/", "/">>)} }
\* a stream is scripted only when it is read: a text-mode stream never is
StreamSources ==
    UNION { { StreamSource(Some(<<"r", "b">>), sz, sc, FALSE) :
                sc \in SeqsUpTo(Responses(sz), MaxScript) }
            \cup { StreamSource(m, sz, <<>>, FALSE) : m \in FileModes }
            \cup { StreamSource(Some(<<"r", "b">>), sz, <<>>, TRUE) }
            : sz \in 0..MaxFileSize }
Sources == PathSources \cup StreamSources

GoodPath == PathSource(<<"a">>, TRUE, TRUE)

Outputs == { None, Some(""), Some("JSON") }
ExtraOptions == { None, Some(<<>>), Some(<<<<"Language", "raw">>>>),
                  Some(<<<<"Language", "raw">>, <<"Complete", "">>>>) }
Speeds == { <<"float", 5>>, <<"int", 1>> }

\* the outcome of loading one candidate library file: it cannot be loaded
\* ("oserror"), it loads but reports no version ("noversion"), or it loads and
\* reports the version `ver`; such a library answers MediaInfo_Inform with a
\* well-formed document ("ok") or with text that is not one ("notxml")
Cand(k, ver) == [k |-> k, ver |-> ver]
Versions == { <<17, 9>>, <<17, 10>>, <<18, 3>>, <<19, 9>>, <<20, 3, 1>> }
OneLibrary == { <<Cand("ok", v)>> : v \in Versions }
BrokenLibraries == { <<Cand("oserror", <<>>)>>, <<Cand("noversion", <<>>)>>,
                     <<Cand("oserror", <<>>), Cand("ok", <<19, 9>>)>>,
                     <<Cand("oserror", <<>>), Cand("oserror", <<>>)>>,
                     <<Cand("noversion", <<>>), Cand("ok", <<19, 9>>)>> }
Libraries == OneLibrary \cup BrokenLibraries
Newest == <<Cand("ok", <<20, 3, 1>>)>>
GivenLibraries == { Cand("oserror", <<>>), Cand("noversion", <<>>), Cand("ok", <<20, 3, 1>>) }

\* cover_data, full, legacy_stream_display: the defaults, and each one flipped
Flags(cover, full, legacy) == [cover |-> cover, full |-> full, legacy |-> legacy]
DefaultFlags == Flags(FALSE, TRUE, FALSE)
FlagProfiles == { DefaultFlags, Flags(TRUE, FALSE, TRUE) }

ParseJob(src, output, opts, flags, speed, bufsize) ==
    [op |-> "parse", src |-> src, output |-> output, opts |-> opts,
     cover |-> flags.cover, full |-> flags.full, legacy |-> flags.legacy,
     speed |-> speed, bufsize |-> bufsize, library_file |-> None]
\* parse(..., library_file=...): what loading the given file yields
WithLibraryFile(j, cand) == [j EXCEPT !.library_file = Some(cand)]
DefaultJob(src) == ParseJob(src, None, None, DefaultFlags, <<"float", 5>>, 1)
ProbeJob == [DefaultJob(GoodPath) EXCEPT !.op = "can_parse"]

BadPath == PathSource(<<"a">>, FALSE, FALSE)
TextStream == StreamSource(Some(<<"r">>), 1, <<>>, FALSE)
SeekingStream ==
    StreamSource(Some(<<"r", "b">>), 1, <<[fin |-> FALSE, goto |-> 0]>>, FALSE)

\* Spec: every source, every buffer size on every file size, every output and
\* extra option on a few sources, every flag and speed on one
SeqJobs ==
    { DefaultJob(src) : src \in Sources }
    \cup { ParseJob(StreamSource(Some(<<"r", "b">>), sz, <<>>, FALSE), None, None,
                     DefaultFlags, <<"float", 5>>, b) :
             sz \in 0..MaxFileSize, b \in 1..(MaxFileSize + 1) }
    \cup { ParseJob(src, out, opts, DefaultFlags, <<"float", 5>>, 1) :
             src \in {GoodPath, BadPath, TextStream}, out \in Outputs, opts \in ExtraOptions }
    \cup { ParseJob(GoodPath, out, None, flags, sp, 1) :
             out \in Outputs, flags \in FlagProfiles, sp \in Speeds }
    \cup { WithLibraryFile(j, c) : j \in {DefaultJob(GoodPath), ProbeJob}, c \in GivenLibraries }
    \cup { ProbeJob }

\* SpecConc: the parameters the threads share
ConcJobs ==
    { DefaultJob(src) : src \in {GoodPath, BadPath, TextStream, SeekingStream} }
    \cup { ParseJob(GoodPath, Some("JSON"), None, DefaultFlags, <<"float", 5>>, 1),
           ParseJob(GoodPath, None, Some(<<<<"Language", "raw">>>>), DefaultFlags,
                    <<"float", 5>>, 1),
           ProbeJob }
ConcLibraries == { <<Cand("ok", <<20, 3, 1>>)>> }

(***************************************************************************)
(* The frame of one invocation                                             *)
(***************************************************************************)
IdleFrame ==
    [pc |-> "idle", job |-> None, version |-> <<>>, handle |-> 0, idx |-> 0,
     file_size |-> None, pos |-> 0, fed |-> 0, buffer |-> 0, warned |-> FALSE,
     obs |-> {}, info |-> None, calls |-> <<>>, outcome |-> "none", result |-> None,
     message |-> <<>>, xml |-> TRUE]

NewFrame(j) == [IdleFrame EXCEPT !.pc = "get_library", !.job = Some(j), !.pos = j.src.start]

Job(f) == Val(f.job)

Call(fn, h, k, v) == [f |-> fn, h |-> h, k |-> k, v |-> v]
Logged(f, c) == [f EXCEPT !.calls = Append(@, c)]

\* an exception leaves the invocation; can_parse turns it into False (335-341)
PropagatingRaise(f, exc) == [f EXCEPT !.pc = "done", !.outcome = exc]
Raise(f, exc) ==
    IF Job(f).op = "can_parse"
    THEN [f EXCEPT !.pc = "done", !.outcome = "returned", !.result = Some(FALSE)]
    ELSE [f EXCEPT !.pc = "done", !.outcome = exc]

InFlight(f) == f.pc \notin {"idle", "done"}

(***************************************************************************)
(* MediaInfo._get_library (lines 289-325)                                  *)
(***************************************************************************)
\* The candidates are tried in order. OSError moves on to the next one; a
\* candidate that loads gets a handle from MediaInfo_New, and then either
\* returns its version or raises RuntimeError, which `except OSError` lets
\* through.
RECURSIVE GetLibraryFrom(_, _)
GetLibraryFrom(cands, i) ==
    IF i > Len(cands) THEN [out |-> "OSError", ver |-> <<>>, made |-> FALSE, xml |-> TRUE]
    ELSE IF cands[i].k = "oserror" THEN GetLibraryFrom(cands, i + 1)
    ELSE IF cands[i].k = "noversion"
    THEN [out |-> "RuntimeError", ver |-> <<>>, made |-> TRUE, xml |-> TRUE]
    ELSE [out |-> "ok", ver |-> cands[i].ver, made |-> TRUE, xml |-> cands[i].k # "notxml"]

GetLibraryResult(cands) == GetLibraryFrom(cands, 1)

\* library_paths (297-300): the given file alone, or the files found by
\* _get_library_paths; and what loading each of them yields
LibraryPaths(library_file, found) ==
    IF IsNone(library_file) THEN [i \in 1..Len(found) |-> <<"found", i>>]
    ELSE <<<<"given", 1>>>>
Candidates(library_file, found) ==
    IF IsNone(library_file) THEN found ELSE <<Val(library_file)>>
\* the message of the final OSError (321-325): the paths, joined, and the text
\* of every OSError caught on the way
LoadErrorMessage(cands, paths) ==
    LET failed == SelectSeq([i \in 1..Len(cands) |-> i], LAMBDA i : cands[i].k = "oserror")
    IN  [paths |-> paths,
         exceptions |-> [n \in 1..Len(failed) |-> <<"cannot load", paths[failed[n]]>>]]

\* the handle _get_library hands to its caller: a new one for every call
SharedHandle(hs) == SharedNativeNew(hs)
GetLibraryHandle(hs) == NativeNew(hs)

(***************************************************************************)
(* MediaInfo.parse: the option calls of the configuring step (459-481)     *)
(***************************************************************************)
MajorOnlyXmlOption(version) == IF version[1] >= 17 THEN "OLDXML" ELSE "XML"
XmlOption(version) == IF TupleGE(version, <<17, 10>>) THEN "OLDXML" ELSE "XML"

TruthyInformValue(output, version) ==
    IF IsNone(output) \/ Val(output) = "" THEN XmlOption(version) ELSE Val(output)
InformValue(output, version) ==
    IF IsNone(output) THEN XmlOption(version) ELSE Val(output)

CoverLastCalls(j, version) ==
    << <<"CharSet", "UTF-8">>,
       <<"Inform", InformValue(j.output, version)>>,
       <<"Complete", IF j.full THEN "1" ELSE "">>,
       <<"ParseSpeed", PyStr(j.speed)>>,
       <<"LegacyStreamDisplay", IF j.legacy THEN "1" ELSE "">> >>
    \o (IF TupleGE(version, <<18, 3>>)
        THEN << <<"Cover_Data", IF j.cover THEN "base64" ELSE "">> >>
        ELSE <<>>)
AlwaysCoverCalls(j, version) ==
    << <<"Cover_Data", IF j.cover THEN "base64" ELSE "">>,
       <<"CharSet", "UTF-8">>,
       <<"Inform", InformValue(j.output, version)>>,
       <<"Complete", IF j.full THEN "1" ELSE "">>,
       <<"ParseSpeed", PyStr(j.speed)>>,
       <<"LegacyStreamDisplay", IF j.legacy THEN "1" ELSE "">> >>
FixedCalls(j, version) ==
    (IF TupleGE(version, <<18, 3>>)
     THEN << <<"Cover_Data", IF j.cover THEN "base64" ELSE "">> >>
     ELSE <<>>)
    \o << <<"CharSet", "UTF-8">>,
          <<"Inform", InformValue(j.output, version)>>,
          <<"Complete", IF j.full THEN "1" ELSE "">>,
          <<"ParseSpeed", PyStr(j.speed)>>,
          <<"LegacyStreamDisplay", IF j.legacy THEN "1" ELSE "">> >>

AlwaysReset(opts, version) == TupleGE(version, <<19, 9>>)
NeverReset(opts, version) == FALSE
ShouldReset(opts, version) == ~IsNone(opts) /\ TupleGE(version, <<19, 9>>)

WarnOnNonEmpty(opts, version) ==
    ~IsNone(opts) /\ Val(opts) # <<>> /\ ~TupleGE(version, <<19, 9>>)
ShouldWarn(opts, version) == ~IsNone(opts) /\ ~TupleGE(version, <<19, 9>>)

\* "b" not in getattr(filename, "mode", "b")
NoModeIsText(mode) == ~Contains(IF IsNone(mode) THEN <<>> ELSE Val(mode), <<"b">>)
IsTextMode(mode) == ~Contains(IF IsNone(mode) THEN <<"b">> ELSE Val(mode), <<"b">>)

\* the exception of the failed open-by-path (526-530)
UrlBlindOpenError(name, exists) ==
    IF ~exists THEN "FileNotFoundError" ELSE "RuntimeError"
OpenError(name, exists) ==
    IF ~Contains(name, <<":", "/", "/">>) /\ ~exists
    THEN "FileNotFoundError" ELSE "RuntimeError"

\* what MediaInfo_Inform returns: it depends on the source and on the option
\* store as the native calls of the acquisition and MediaInfo_Inform saw it
Report(f) == [src |-> Job(f).src, obs |-> f.obs]

\* how `return cls(info, encoding_errors)` / `return info` ends (542-544):
\* ET.fromstring (166) raises ParseError on a report that is not well-formed
LenientParseOutcome(output, xml) == "returned"
ParseOutcome(output, xml) == IF IsNone(output) /\ ~xml THEN "ParseError" ELSE "returned"

\* the value parse returns (542-544)
TruthyParseResult(output, info) ==
    IF IsNone(output) \/ Val(output) = ""
    THEN [type |-> "MediaInfo", of |-> info] ELSE [type |-> "str", of |-> info]
ParseResult(output, info) ==
    IF IsNone(output)
    THEN [type |-> "MediaInfo", of |-> info] ELSE [type |-> "str", of |-> info]

(***************************************************************************)
(* The steps of an invocation: one native call (or one local stretch of    *)
(* Python between two native calls) per step                               *)
(***************************************************************************)
Put(t, f) == inv' = [inv EXCEPT ![t] = f]

\* cls._get_library(library_file): line 458 (parse), line 336 (can_parse)
GetLibrary(t) ==
    LET f == inv[t]
        cands == Candidates(Job(f).library_file, library)
        r == GetLibraryResult(cands)
        h == GetLibraryHandle(handleState)
        g == Logged(Logged([f EXCEPT !.handle = h], Call("New", h, "", <<>>)),
                    Call("Option", h, "Info_Version", ""))
    IN  /\ f.pc = "get_library"
        /\ IF r.made
           THEN /\ handleState' = [handleState EXCEPT ![h] = "new"]
                /\ IF r.out = "ok"
                   THEN Put(t, [g EXCEPT !.version = r.ver, !.xml = r.xml, !.idx = 1,
                                  !.pc = IF Job(f).op = "can_parse" THEN "close" ELSE "config"])
                   ELSE Put(t, Raise(g, r.out))
           ELSE /\ Put(t, [Raise(f, r.out) EXCEPT !.message =
                               LoadErrorMessage(cands, LibraryPaths(Job(f).library_file, library))])
                /\ UNCHANGED handleState
        /\ UNCHANGED <<libOptions, started, library, job, docVars>>

\* lib.MediaInfo_Option(handle, ...) for the fixed options: lines 463-469
Config(t) ==
    LET f == inv[t]
        cs == FixedCalls(Job(f), f.version)
        c == cs[f.idx]
    IN  /\ f.pc = "config"
        /\ libOptions' = NativeOption(libOptions, c[1], c[2])
        /\ Put(t, [Logged(f, Call("Option", f.handle, c[1], c[2])) EXCEPT
                     !.idx = IF f.idx = Len(cs) THEN 1 ELSE f.idx + 1,
                     !.pc = IF f.idx = Len(cs) THEN "extra_check" ELSE "config"])
        /\ UNCHANGED <<handleState, started, library, job, docVars>>

\* `if mediainfo_options is not None` and the warning: lines 470-479
ExtraCheck(t) ==
    LET f == inv[t]
        opts == Job(f).opts
    IN  /\ f.pc = "extra_check"
        /\ Put(t, [f EXCEPT !.warned = ShouldWarn(opts, f.version),
                            !.pc = IF IsNone(opts) \/ Len(Val(opts)) = 0
                                   THEN "probe" ELSE "extra"])
        /\ UNCHANGED <<libOptions, handleState, started, library, job, docVars>>

\* lib.MediaInfo_Option(handle, option_name, option_value): lines 480-481
ExtraReversed(t) ==
    LET f == inv[t]
        cs == Val(Job(f).opts)
        c == cs[Len(cs) + 1 - f.idx]
    IN  /\ f.pc = "extra"
        /\ libOptions' = NativeOption(libOptions, c[1], c[2])
        /\ Put(t, [Logged(f, Call("Option", f.handle, c[1], c[2])) EXCEPT
                     !.idx = f.idx + 1,
                     !.pc = IF f.idx = Len(cs) THEN "probe" ELSE "extra"])
        /\ UNCHANGED <<handleState, started, library, job, docVars>>
Extra(t) ==
    LET f == inv[t]
        cs == Val(Job(f).opts)
        c == cs[f.idx]
    IN  /\ f.pc = "extra"
        /\ libOptions' = NativeOption(libOptions, c[1], c[2])
        /\ Put(t, [Logged(f, Call("Option", f.handle, c[1], c[2])) EXCEPT
                     !.idx = f.idx + 1,
                     !.pc = IF f.idx = Len(cs) THEN "probe" ELSE "extra"])
        /\ UNCHANGED <<handleState, started, library, job, docVars>>

\* the size probe and the mode check: lines 482-497
Probe(t) ==
    LET f == inv[t]
        src == Job(f).src
    IN  /\ f.pc = "probe"
        /\ IF src.kind = "path"
           THEN Put(t, [f EXCEPT !.pc = "open"])
           ELSE IF IsTextMode(src.mode)
           THEN Put(t, Raise([f EXCEPT !.file_size = Some(src.size), !.pos = 0], "ValueError"))
           ELSE Put(t, [f EXCEPT !.file_size = Some(src.size), !.pos = 0, !.pc = "buf_init"])
        /\ UNCHANGED <<libOptions, handleState, started, library, job, docVars>>

\* lib.MediaInfo_Open_Buffer_Init(handle, file_size, 0): line 498
BufInit(t) ==
    LET f == inv[t]
    IN  /\ f.pc = "buf_init"
        /\ Put(t, [Logged(f, Call("Open_Buffer_Init", f.handle, "", <<Val(f.file_size), 0>>))
                     EXCEPT !.obs = @ \cup {libOptions}, !.pc = "read"])
        /\ UNCHANGED <<libOptions, handleState, started, library, job, docVars>>

\* buffer = filename.read(buffer_size); if buffer / else break: 500-501, 513-514
ShortReadEnds(t) ==
    LET f == inv[t]
        src == Job(f).src
        left == IF f.pos < src.size THEN src.size - f.pos ELSE 0
        n == IF Job(f).bufsize < left THEN Job(f).bufsize ELSE left
    IN  /\ f.pc = "read"
        /\ IF src.readErr
           THEN Put(t, Raise(f, "OSError"))
           ELSE Put(t, [f EXCEPT !.buffer = n, !.pos = f.pos + n,
                                 !.pc = IF n < Job(f).bufsize THEN "finalize" ELSE "continue"])
        /\ UNCHANGED <<libOptions, handleState, started, library, job, docVars>>
Read(t) ==
    LET f == inv[t]
        src == Job(f).src
        left == IF f.pos < src.size THEN src.size - f.pos ELSE 0
        n == IF Job(f).bufsize < left THEN Job(f).bufsize ELSE left
    IN  /\ f.pc = "read"
        /\ IF src.readErr
           THEN Put(t, Raise(f, "OSError"))
           ELSE Put(t, [f EXCEPT !.buffer = n, !.pos = f.pos + n,
                                 !.pc = IF n = 0 THEN "finalize" ELSE "continue"])
        /\ UNCHANGED <<libOptions, handleState, started, library, job, docVars>>

\* the answer of the native library to the n-th buffer it is fed
Response(f) ==
    IF f.fed < Len(Job(f).src.script) THEN Job(f).src.script[f.fed + 1] ELSE NoResponse

\* lib.MediaInfo_Open_Buffer_Continue(handle, buffer, len(buffer)) & 0x08: 504-505
Continue(t) ==
    LET f == inv[t]
    IN  /\ f.pc = "continue"
        /\ Put(t, [Logged(f, Call("Open_Buffer_Continue", f.handle, "", <<f.buffer>>))
                     EXCEPT !.obs = @ \cup {libOptions},
                            !.pc = IF Response(f).fin THEN "finalize" ELSE "goto"])
        /\ UNCHANGED <<libOptions, handleState, started, library, job, docVars>>

\* seek = lib.MediaInfo_Open_Buffer_Continue_GoTo_Get(handle) and the seek: 507-510
SeekWithoutInit(t) ==
    LET f == inv[t]
        seek == Response(f).goto
        g == [Logged(f, Call("Open_Buffer_Continue_GoTo_Get", f.handle, "", <<>>))
                EXCEPT !.fed = f.fed + 1]
    IN  /\ f.pc = "goto"
        /\ IF seek # SENTINEL
           THEN Put(t, [g EXCEPT !.pos = seek, !.pc = "read"])
           ELSE Put(t, [g EXCEPT !.pc = "read"])
        /\ UNCHANGED <<libOptions, handleState, started, library, job, docVars>>
GoToGet(t) ==
    LET f == inv[t]
        seek == Response(f).goto
        g == [Logged(f, Call("Open_Buffer_Continue_GoTo_Get", f.handle, "", <<>>))
                EXCEPT !.fed = f.fed + 1]
    IN  /\ f.pc = "goto"
        /\ IF seek # SENTINEL
           THEN Put(t, [g EXCEPT !.pos = seek, !.pc = "reinit"])
           ELSE Put(t, [g EXCEPT !.pc = "read"])
        /\ UNCHANGED <<libOptions, handleState, started, library, job, docVars>>

\* lib.MediaInfo_Open_Buffer_Init(handle, file_size, filename.tell()): line 512
ReInit(t) ==
    LET f == inv[t]
    IN  /\ f.pc = "reinit"
        /\ Put(t, [Logged(f, Call("Open_Buffer_Init", f.handle, "", <<Val(f.file_size), f.pos>>))
                     EXCEPT !.obs = @ \cup {libOptions}, !.pc = "read"])
        /\ UNCHANGED <<libOptions, handleState, started, library, job, docVars>>

\* lib.MediaInfo_Open_Buffer_Finalize(handle): line 515
FinalizeAndReadOn(t) ==
    LET f == inv[t]
    IN  /\ f.pc = "finalize"
        /\ Put(t, [f EXCEPT !.pc = "read"])
        /\ UNCHANGED <<libOptions, handleState, started, library, job, docVars>>
Finalize(t) ==
    LET f == inv[t]
    IN  /\ f.pc = "finalize"
        /\ Put(t, [Logged(f, Call("Open_Buffer_Finalize", f.handle, "", <<>>))
                     EXCEPT !.obs = @ \cup {libOptions}, !.pc = "inform"])
        /\ UNCHANGED <<libOptions, handleState, started, library, job, docVars>>

\* lib.MediaInfo_Open(handle, filename) == 0: lines 519-522
InformAfterFailedOpen(t) ==
    LET f == inv[t]
        src == Job(f).src
    IN  /\ f.pc = "open"
        /\ Put(t, [Logged(f, Call("Open", f.handle, "", src.name))
                     EXCEPT !.obs = @ \cup {libOptions}, !.pc = "inform"])
        /\ UNCHANGED <<libOptions, handleState, started, library, job, docVars>>
Open(t) ==
    LET f == inv[t]
        src == Job(f).src
    IN  /\ f.pc = "open"
        /\ Put(t, [Logged(f, Call("Open", f.handle, "", src.name))
                     EXCEPT !.obs = @ \cup {libOptions},
                            !.pc = IF src.openOk THEN "inform" ELSE "fail_close"])
        /\ UNCHANGED <<libOptions, handleState, started, library, job, docVars>>

\* lib.MediaInfo_Close(handle) after the failed open: line 523
FailClose(t) ==
    LET f == inv[t]
    IN  /\ f.pc = "fail_close"
        /\ handleState' = [handleState EXCEPT ![f.handle] = "closed"]
        /\ Put(t, [Logged(f, Call("Close", f.handle, "", <<>>)) EXCEPT !.pc = "fail_delete"])
        /\ UNCHANGED <<libOptions, started, library, job, docVars>>

\* lib.MediaInfo_Delete(handle) after the failed open, and the raise: 524-530
FailDeleteFallsThrough(t) ==
    LET f == inv[t]
    IN  /\ f.pc = "fail_delete"
        /\ handleState' = [handleState EXCEPT ![f.handle] = "deleted"]
        /\ Put(t, [Logged(f, Call("Delete", f.handle, "", <<>>)) EXCEPT !.pc = "inform"])
        /\ UNCHANGED <<libOptions, started, library, job, docVars>>
FailDelete(t) ==
    LET f == inv[t]
        src == Job(f).src
    IN  /\ f.pc = "fail_delete"
        /\ handleState' = [handleState EXCEPT ![f.handle] = "deleted"]
        /\ Put(t, Raise(Logged(f, Call("Delete", f.handle, "", <<>>)),
                        OpenError(src.name, src.exists)))
        /\ UNCHANGED <<libOptions, started, library, job, docVars>>

\* info = lib.MediaInfo_Inform(handle, 0): line 531
Inform(t) ==
    LET f == inv[t]
    IN  /\ f.pc = "inform"
        /\ Put(t, [Logged(f, Call("Inform", f.handle, "", <<0>>))
                     EXCEPT !.obs = @ \cup {libOptions},
                            !.info = Some(Report([f EXCEPT !.obs = @ \cup {libOptions}])),
                            !.pc = IF ShouldReset(Job(f).opts, f.version)
                                   THEN "reset" ELSE "close"])
        /\ UNCHANGED <<libOptions, handleState, started, library, job, docVars>>

\* lib.MediaInfo_Option(handle, "Reset", ""): lines 537-538
Reset(t) ==
    LET f == inv[t]
    IN  /\ f.pc = "reset"
        /\ libOptions' = NativeOption(libOptions, "Reset", "")
        /\ Put(t, [Logged(f, Call("Option", f.handle, "Reset", "")) EXCEPT !.pc = "close"])
        /\ UNCHANGED <<handleState, started, library, job, docVars>>

\* lib.MediaInfo_Close(handle): line 540 (parse), line 337 (can_parse)
Close(t) ==
    LET f == inv[t]
    IN  /\ f.pc = "close"
        /\ handleState' = [handleState EXCEPT ![f.handle] = "closed"]
        /\ Put(t, [Logged(f, Call("Close", f.handle, "", <<>>)) EXCEPT !.pc = "delete"])
        /\ UNCHANGED <<libOptions, started, library, job, docVars>>

\* lib.MediaInfo_Delete(handle) and the return: 541-544 (parse), 338-341 (can_parse)
Delete(t) ==
    LET f == inv[t]
        g == Logged(f, Call("Delete", f.handle, "", <<>>))
    IN  /\ f.pc = "delete"
        /\ handleState' = [handleState EXCEPT ![f.handle] = "deleted"]
        /\ IF Job(f).op = "can_parse"
           THEN Put(t, [g EXCEPT !.pc = "done", !.outcome = "returned", !.result = Some(TRUE)])
           ELSE IF ParseOutcome(Job(f).output, f.xml) = "returned"
           THEN Put(t, [g EXCEPT !.pc = "done", !.outcome = "returned",
                                 !.result = Some(ParseResult(Job(f).output, Val(f.info)))])
           ELSE Put(t, Raise(g, ParseOutcome(Job(f).output, f.xml)))
        /\ UNCHANGED <<libOptions, started, library, job, docVars>>

Step(t) ==
    \/ GetLibrary(t) \/ Config(t) \/ ExtraCheck(t) \/ Extra(t) \/ Probe(t)
    \/ BufInit(t) \/ Read(t) \/ Continue(t) \/ GoToGet(t) \/ ReInit(t) \/ Finalize(t)
    \/ Open(t) \/ FailClose(t) \/ FailDelete(t)
    \/ Inform(t) \/ Reset(t) \/ Close(t) \/ Delete(t)

(***************************************************************************)
(* Python values held by a Track: None, str, int, list, bound method       *)
(***************************************************************************)
VNone == [t |-> "none", s |-> <<>>, n |-> 0, items |-> <<>>]
VStr(s) == [t |-> "str", s |-> s, n |-> 0, items |-> <<>>]
VInt(n) == [t |-> "int", s |-> <<>>, n |-> n, items |-> <<>>]
VList(items) == [t |-> "list", s |-> <<>>, n |-> 0, items |-> items]
VMethod == [t |-> "method", s |-> <<>>, n |-> 0, items |-> <<>>]

\* elem.text: None for an element without text
TextValue(text) == IF IsNone(text) THEN VNone ELSE VStr(Val(text))

Chars(str) ==
    CASE str = "File" -> <<"F", "i", "l", "e">>
      [] str = "track" -> <<"t", "r", "a", "c", "k">>
      [] str = "Mediainfo" -> <<"M", "e", "d", "i", "a", "i", "n", "f", "o">>
      [] str = "id" -> <<"i", "d">>
      [] str = "track_id" -> <<"t", "r", "a", "c", "k", "_", "i", "d">>
      [] str = "track_type" -> <<"t", "r", "a", "c", "k", "_", "t", "y", "p", "e">>
      [] str = "to_data" -> <<"t", "o", "_", "d", "a", "t", "a">>
      [] str = "other_" -> <<"o", "t", "h", "e", "r", "_">>
      [] str = "General" -> <<"G", "e", "n", "e", "r", "a", "l">>
      [] str = "Video" -> <<"V", "i", "d", "e", "o">>
      [] str = "Audio" -> <<"A", "u", "d", "i", "o">>
      [] str = "Text" -> <<"T", "e", "x", "t">>
      [] str = "Other" -> <<"O", "t", "h", "e", "r">>
      [] str = "Image" -> <<"I", "m", "a", "g", "e">>
      [] str = "Menu" -> <<"M", "e", "n", "u">>
      [] str = "Chapters" -> <<"C", "h", "a", "p", "t", "e", "r", "s">>

\* str.lower(), str.strip(), str.strip("_")
LowerChar(c) ==
    CASE c = "D" -> "d" [] c = "E" -> "e" [] c = "F" -> "f" [] c = "I" -> "i"
      [] c = "M" -> "m" [] c = "T" -> "t" [] OTHER -> c
Lower(s) == [i \in 1..Len(s) |-> LowerChar(s[i])]
RECURSIVE StripOf(_, _)
StripOf(s, cs) ==
    IF s = <<>> THEN s
    ELSE IF Head(s) \in cs THEN StripOf(Tail(s), cs)
    ELSE IF s[Len(s)] \in cs THEN StripOf(SubSeq(s, 1, Len(s) - 1), cs)
    ELSE s
Whitespace == {" "}

\* int(x): the integer, or the exception it raises
Digits == {"0", "1", "2", "3", "4", "5", "6", "7", "8", "9"}
DigitValue(c) ==
    CASE c = "0" -> 0 [] c = "1" -> 1 [] c = "2" -> 2 [] c = "3" -> 3 [] c = "4" -> 4
      [] c = "5" -> 5 [] c = "6" -> 6 [] c = "7" -> 7 [] c = "8" -> 8 [] c = "9" -> 9
RECURSIVE DigitsValue(_, _)
DigitsValue(s, acc) ==
    IF s = <<>> THEN acc
    ELSE IF Head(s) = "_" THEN DigitsValue(Tail(s), acc)
    ELSE DigitsValue(Tail(s), 10 * acc + DigitValue(Head(s)))
IsIntLiteral(s) ==
    LET t == StripOf(s, Whitespace)
        signed == t # <<>> /\ Head(t) \in {"+", "-"}
        body == IF signed THEN Tail(t) ELSE t
    IN  /\ body # <<>>
        /\ \A i \in 1..Len(body) : body[i] \in Digits \cup {"_"}
        /\ body[1] \in Digits /\ body[Len(body)] \in Digits
        /\ \A i \in 1..(Len(body) - 1) : ~(body[i] = "_" /\ body[i + 1] = "_")
IntLiteralValue(s) ==
    LET t == StripOf(s, Whitespace)
    IN  IF Head(t) = "-" THEN 0 - DigitsValue(Tail(t), 0)
        ELSE IF Head(t) = "+" THEN DigitsValue(Tail(t), 0)
        ELSE DigitsValue(t, 0)
PyInt(v) ==
    IF v.t = "int" THEN [k |-> "ok", n |-> v.n]
    ELSE IF v.t = "str"
    THEN IF IsIntLiteral(v.s) THEN [k |-> "ok", n |-> IntLiteralValue(v.s)]
         ELSE [k |-> "ValueError", n |-> 0]
    ELSE [k |-> "TypeError", n |-> 0]

(***************************************************************************)
(* Track (lines 29-124)                                                    *)
(***************************************************************************)
\* the attributes of the class that a normalized name can reach
ClassMembers == { Chars("to_data") }

\* Track.__getattribute__ (60-65): the instance value, the class member, or None
RaisingGetAttr(rec, name) ==
    IF name \in DOMAIN rec THEN rec[name]
    ELSE IF name \in ClassMembers THEN VMethod
    ELSE [t |-> "AttributeError", s |-> <<>>, n |-> 0, items |-> <<>>]
GetAttr(rec, name) ==
    IF name \in DOMAIN rec THEN rec[name]
    ELSE IF name \in ClassMembers THEN VMethod
    ELSE VNone

\* setattr(self, name, value)
SetAttr(rec, name, value) ==
    [k \in DOMAIN rec \cup {name} |-> IF k = name THEN value ELSE rec[k]]

\* node_name of a child element (77-79)
UnstrippedNodeName(tag) ==
    LET n == Lower(tag) IN IF n = Chars("id") THEN Chars("track_id") ELSE n
NodeName(tag) ==
    LET n == StripOf(StripOf(Lower(tag), Whitespace), {"_"})
    IN  IF n = Chars("id") THEN Chars("track_id") ELSE n

OtherName(name) == Chars("other_") \o name

\* one turn of `for elem in xml_dom_fragment` (76-89) on the frame b
SeededConsumeChild(b, elem) ==
    LET node_name == NodeName(elem.tag)
        node_value == TextValue(elem.text)
        other_node_name == OtherName(node_name)
        others == GetAttr(b.rec, other_node_name)
    IN  IF GetAttr(b.rec, node_name) = VNone
        THEN [b EXCEPT !.rec = SetAttr(@, node_name, node_value)]
        ELSE LET c == [b EXCEPT !.rep = Append(@, <<node_name, other_node_name>>)]
             IN  IF others = VNone
                 THEN [c EXCEPT !.rec = SetAttr(@, other_node_name,
                                                VList(<<GetAttr(b.rec, node_name), node_value>>))]
                 ELSE IF others.t = "list"
                 THEN [c EXCEPT !.rec = SetAttr(@, other_node_name,
                                                VList(Append(others.items, node_value)))]
                 ELSE [c EXCEPT !.exc = "AttributeError"]
ConsumeChild(b, elem) ==
    LET node_name == NodeName(elem.tag)
        node_value == TextValue(elem.text)
        other_node_name == OtherName(node_name)
        others == GetAttr(b.rec, other_node_name)
    IN  IF GetAttr(b.rec, node_name) = VNone
        THEN [b EXCEPT !.rec = SetAttr(@, node_name, node_value)]
        ELSE LET c == [b EXCEPT !.rep = Append(@, <<node_name, other_node_name>>)]
             IN  IF others = VNone
                 THEN [c EXCEPT !.rec = SetAttr(@, other_node_name, VList(<<node_value>>))]
                 ELSE IF others.t = "list"
                 THEN [c EXCEPT !.rec = SetAttr(@, other_node_name,
                                                VList(Append(others.items, node_value)))]
                 ELSE [c EXCEPT !.exc = "AttributeError"]

\* the scan of the other_ list for a value that int() accepts (100-109): the
\* index of the first one, 0 when there is none, -1 when int() raises TypeError
\* before one is found
RECURSIVE LastCoercible(_, _)
LastCoercible(items, i) ==
    IF i = 0 THEN 0
    ELSE IF PyInt(items[i]).k = "ok" THEN i
    ELSE LastCoercible(items, i - 1)
RECURSIVE FirstCoercible(_, _)
FirstCoercible(items, i) ==
    IF i > Len(items) THEN 0
    ELSE IF PyInt(items[i]).k = "ok" THEN i
    ELSE IF PyInt(items[i]).k = "TypeError" THEN 0 - 1
    ELSE FirstCoercible(items, i + 1)

\* one turn of `for primary_key, other_key in repeated_attributes` (91-109)
NoPromotion(b, pair) ==
    LET r == PyInt(GetAttr(b.rec, pair[1]))
    IN  IF r.k = "ok" THEN [b EXCEPT !.rec = SetAttr(@, pair[1], VInt(r.n))]
        ELSE IF r.k = "TypeError" THEN [b EXCEPT !.exc = "TypeError"]
        ELSE b
Disambiguate(b, pair) ==
    LET primary_key == pair[1]
        other_key == pair[2]
        current == GetAttr(b.rec, primary_key)
        r == PyInt(current)
        others == GetAttr(b.rec, other_key)
        i == FirstCoercible(others.items, 1)
    IN  IF r.k = "ok" THEN [b EXCEPT !.rec = SetAttr(@, primary_key, VInt(r.n))]
        ELSE IF r.k = "TypeError" THEN [b EXCEPT !.exc = "TypeError"]
        ELSE IF i = 0 THEN b
        ELSE IF i < 0 THEN [b EXCEPT !.exc = "TypeError"]
        ELSE [b EXCEPT !.rec =
                SetAttr(SetAttr(@, primary_key, VInt(PyInt(others.items[i]).n)),
                        other_key, VList(Append(others.items, current)))]

(***************************************************************************)
(* MediaInfo.__init__ (165-173)                                            *)
(***************************************************************************)
Elem(tag, type, text, kids) == [tag |-> tag, type |-> type, text |-> text, kids |-> kids]
Tagged(kids, str) == SelectSeq(kids, LAMBDA e : e.tag = Chars(str))
RECURSIVE Flatten(_)
Flatten(ss) == IF ss = <<>> THEN <<>> ELSE Head(ss) \o Flatten(Tail(ss))

\* ET.fromstring(xml.encode(...)) (166): text without a root element is not
\* well-formed and raises ParseError; any other text is held as its tree
Malformed == Elem(<<>>, None, None, <<>>)
WellFormed(xml) == xml.tag # <<>>

\* xml_dom.iterfind(xpath), xpath being "track" or "File/track" (171-172)
AlwaysWrapped(root) ==
    LET files == Tagged(root.kids, "File")
    IN  Flatten([i \in 1..Len(files) |-> Tagged(files[i].kids, "track")])
FindTracks(root) ==
    IF root.tag = Chars("File") THEN Tagged(root.kids, "track")
    ELSE LET files == Tagged(root.kids, "File")
         IN  Flatten([i \in 1..Len(files) |-> Tagged(files[i].kids, "track")])

\* what the last call made on the finished model returned
NoOutput == [op |-> "none", arg |-> <<>>, value |-> <<>>]
Output(op, arg, value) == [op |-> op, arg |-> arg, value |-> value]

IdleBuild ==
    [pc |-> "idle", found |-> <<>>, ti |-> 0, ci |-> 0, ri |-> 0,
     rec |-> <<>>, rep |-> <<>>, tracks |-> <<>>, exc |-> "none", out |-> NoOutput]

\* ET.fromstring, self.tracks = [], and the choice of the xpath (166-171)
BeginModel ==
    /\ bld.pc = "idle"
    /\ ~IsNone(doc)
    /\ bld' = IF WellFormed(Val(doc))
              THEN [IdleBuild EXCEPT !.pc = "tracks", !.found = FindTracks(Val(doc)), !.ti = 1]
              ELSE [IdleBuild EXCEPT !.pc = "raised", !.exc = "ParseError"]
    /\ UNCHANGED <<doc, model, engineVars>>

\* Track(xml_track): self.track_type = xml_dom_fragment.attrib["type"] (74-75)
BeginTrack ==
    LET e == bld.found[bld.ti]
    IN  /\ bld.pc = "tracks"
        /\ bld.ti <= Len(bld.found)
        /\ IF IsNone(e.type)
           THEN bld' = [bld EXCEPT !.pc = "raised", !.exc = "KeyError"]
           ELSE bld' = [bld EXCEPT !.pc = "children", !.ci = 1, !.ri = 1, !.rep = <<>>,
                                   !.rec = SetAttr(<<>>, Chars("track_type"), VStr(Val(e.type)))]
        /\ UNCHANGED <<doc, model, engineVars>>

\* the body of the first loop of Track.__init__ for one child (76-89)
Child ==
    LET e == bld.found[bld.ti]
        b == ConsumeChild(bld, e.kids[bld.ci])
    IN  /\ bld.pc = "children"
        /\ bld.ci <= Len(e.kids)
        /\ bld' = IF b.exc # "none" THEN [b EXCEPT !.pc = "raised"]
                  ELSE [b EXCEPT !.ci = @ + 1]
        /\ UNCHANGED <<doc, model, engineVars>>

\* the body of the second loop of Track.__init__ for one queued pair (91-109)
Pass ==
    LET e == bld.found[bld.ti]
        b == Disambiguate(bld, bld.rep[bld.ri])
    IN  /\ bld.pc = "children"
        /\ bld.ci > Len(e.kids)
        /\ bld.ri <= Len(bld.rep)
        /\ bld' = IF b.exc # "none" THEN [b EXCEPT !.pc = "raised"]
                  ELSE [b EXCEPT !.ri = @ + 1]
        /\ UNCHANGED <<doc, model, engineVars>>

\* self.tracks.append(Track(xml_track)) (173)
EndTrack ==
    LET e == bld.found[bld.ti]
    IN  /\ bld.pc = "children"
        /\ bld.ci > Len(e.kids)
        /\ bld.ri > Len(bld.rep)
        /\ bld' = [bld EXCEPT !.pc = "tracks", !.ti = @ + 1, !.tracks = Append(@, bld.rec),
                              !.rec = <<>>, !.rep = <<>>, !.ci = 0, !.ri = 0]
        /\ UNCHANGED <<doc, model, engineVars>>

\* MediaInfo.__init__ returns: the object exists
EndModel ==
    /\ bld.pc = "tracks"
    /\ bld.ti > Len(bld.found)
    /\ bld' = [bld EXCEPT !.pc = "done"]
    /\ model' = Some(bld.tracks)
    /\ UNCHANGED <<doc, engineVars>>

(***************************************************************************)
(* Calls on finished objects                                               *)
(***************************************************************************)
\* objects: a Track with its __dict__, a MediaInfo with its tracks, and a plain
\* dict such as the one to_data returns
TrackObj(rec) == [cls |-> "Track", dict |-> rec, tracks |-> <<>>]
MediaInfoObj(recs) ==
    [cls |-> "MediaInfo", dict |-> <<>>, tracks |-> [i \in 1..Len(recs) |-> TrackObj(recs[i])]]
DictObj(rec) == [cls |-> "dict", dict |-> rec, tracks |-> <<>>]

\* Track.__init__ as one call: both loops run to their end or to an exception
RECURSIVE ConsumeAll(_, _, _)
ConsumeAll(b, kids, i) ==
    IF i > Len(kids) \/ b.exc # "none" THEN b
    ELSE ConsumeAll(ConsumeChild(b, kids[i]), kids, i + 1)
RECURSIVE DisambiguateAll(_, _)
DisambiguateAll(b, i) ==
    IF i > Len(b.rep) \/ b.exc # "none" THEN b
    ELSE DisambiguateAll(Disambiguate(b, b.rep[i]), i + 1)
TrackOf(e) ==
    IF IsNone(e.type) THEN [IdleBuild EXCEPT !.exc = "KeyError"]
    ELSE DisambiguateAll(
             ConsumeAll([IdleBuild EXCEPT
                            !.rec = SetAttr(<<>>, Chars("track_type"), VStr(Val(e.type)))],
                        e.kids, 1), 1)
\* MediaInfo(xml): the records, or nothing when a Track constructor raises
ModelOf(root) ==
    LET found == FindTracks(root)
        built == [i \in 1..Len(found) |-> TrackOf(found[i])]
    IN  IF ~WellFormed(root) \/ \E i \in 1..Len(built) : built[i].exc # "none" THEN None
        ELSE Some([i \in 1..Len(built) |-> built[i].rec])

\* dict == dict
DictEq(a, b) == DOMAIN a = DOMAIN b /\ \A k \in DOMAIN a : a[k] = b[k]
\* Track.__eq__ (55-58)
KindOnlyEq(self, other) ==
    IF other.cls # "Track" THEN FALSE
    ELSE GetAttr(self.dict, Chars("track_type")) = GetAttr(other.dict, Chars("track_type"))
TrackEq(self, other) ==
    IF other.cls # "Track" THEN FALSE
    ELSE DictEq(self.dict, other.dict)
\* list == list
ListEq(xs, ys) ==
    Len(xs) = Len(ys) /\ \A i \in 1..Len(xs) : TrackEq(xs[i], ys[i])
\* MediaInfo.__eq__ (160-163)
MediaInfoEq(self, other) ==
    IF other.cls # "MediaInfo" THEN FALSE
    ELSE ListEq(self.tracks, other.tracks)
\* a == b, a being a MediaInfo or a Track
PyEq(a, b) == IF a.cls = "MediaInfo" THEN MediaInfoEq(a, b) ELSE TrackEq(a, b)

\* Track.__getstate__, Track.__setstate__ (67-71), Track.to_data (114-124)
GetState(self) == self.dict
KindOnlySetState(self, state) ==
    [self EXCEPT !.dict = [k \in DOMAIN state \cap {Chars("track_type")} |-> state[k]]]
SetState(self, state) == [self EXCEPT !.dict = state]
ToData(self) == self.dict
\* a Track made without its constructor, as unpickling makes it
FreshTrack == TrackObj(<<>>)
Restored(m) ==
    [m EXCEPT !.tracks = [i \in 1..Len(m.tracks) |-> SetState(FreshTrack, GetState(m.tracks[i]))]]

\* MediaInfo._tracks (175-176) and the seven properties (178-232)
Views == {"General", "Video", "Audio", "Text", "Other", "Image", "Menu"}
EveryTrack(self, track_type) == self.tracks
Tracks(self, track_type) ==
    SelectSeq(self.tracks,
              LAMBDA t : GetAttr(t.dict, Chars("track_type")) = VStr(Chars(track_type)))

\* the names read from records, and the objects a model is compared with
ReadNames ==
    { <<"d">>, <<"e">>, Chars("other_") \o <<"d">>, Chars("track_type"),
      Chars("track_id"), Chars("to_data") }
CompareDocs ==
    { Elem(Chars("File"), None, None, <<Elem(Chars("track"), Some(Chars("Audio")), None, ks)>>) :
        ks \in { <<>>,
                 <<Elem(<<"D">>, None, Some(<<"5">>), <<>>)>>,
                 <<Elem(<<"D">>, None, Some(<<"a">>), <<>>),
                   Elem(<<"D">>, None, Some(<<"5">>), <<>>)>> } }
TheModel == MediaInfoObj(Val(model))
Comparands ==
    { MediaInfoObj(Val(ModelOf(d))) : d \in {Val(doc)} \cup CompareDocs }
    \cup { TheModel.tracks[i] : i \in 1..Len(TheModel.tracks) }
    \cup { DictObj(ToData(TheModel.tracks[i])) : i \in 1..Len(TheModel.tracks) }

\* the record after track.<name>: __getattribute__ (60-65) assigns nothing
StoringRead(rec, name) ==
    IF name \in DOMAIN rec \/ name \in ClassMembers THEN rec
    ELSE SetAttr(rec, name, VNone)
AfterRead(rec, name) == rec

\* str(n) and json.dumps of the values a record holds
DigitChar(d) == CHOOSE c \in Digits : DigitValue(c) = d
RECURSIVE NatText(_)
NatText(n) ==
    IF n < 10 THEN <<DigitChar(n)>> ELSE NatText(n \div 10) \o <<DigitChar(n % 10)>>
IntText(n) == IF n < 0 THEN <<"-">> \o NatText(0 - n) ELSE NatText(n)
JsonScalar(v) ==
    IF v.t = "none" THEN <<"n", "u", "l", "l">>
    ELSE IF v.t = "int" THEN IntText(v.n)
    ELSE <<"\"">> \o v.s \o <<"\"">>
RECURSIVE JsonItems(_)
JsonItems(items) ==
    IF items = <<>> THEN <<>>
    ELSE JsonScalar(Head(items))
         \o (IF Tail(items) = <<>> THEN <<>> ELSE <<",", " ">> \o JsonItems(Tail(items)))
JsonOf(v) ==
    IF v.t = "list" THEN <<"[">> \o JsonItems(v.items) \o <<"]">> ELSE JsonScalar(v)

\* MediaInfo.to_data (546-548): the list under "tracks"; MediaInfo.to_json
\* (550-552): the text of each member of each track's object, by key
MediaInfoToData(self) == [i \in 1..Len(self.tracks) |-> ToData(self.tracks[i])]
ToJson(self) ==
    LET data == MediaInfoToData(self)
    IN  [i \in 1..Len(data) |-> [k \in DOMAIN data[i] |-> JsonOf(data[i][k])]]

\* the calls are made on the finished model: one call in a run, and on the
\* documents of SpecQueries any number of calls in any order
QueryTracks ==
    { [tag |-> Chars("track"), type |-> Some(Chars("General")), text |-> None,
       kids |-> <<[tag |-> <<"E">>, type |-> None, text |-> Some(<<"5">>), kids |-> <<>>]>>],
      [tag |-> Chars("track"), type |-> Some(Chars("Video")), text |-> None,
       kids |-> <<[tag |-> <<"D">>, type |-> None, text |-> Some(<<"5">>), kids |-> <<>>]>>],
      [tag |-> Chars("track"), type |-> Some(Chars("Audio")), text |-> None,
       kids |-> <<[tag |-> <<"D">>, type |-> None, text |-> Some(<<"a">>), kids |-> <<>>],
                  [tag |-> <<"D">>, type |-> None, text |-> Some(<<"5">>), kids |-> <<>>]>>] }
QueryDocs ==
    { [tag |-> Chars("File"), type |-> None, text |-> None, kids |-> <<t1, t2>>] :
        t1 \in QueryTracks, t2 \in QueryTracks }
Callable == bld.pc = "done" /\ (bld.out.op = "none" \/ Val(doc) \in QueryDocs)

\* track.<name>
GetAttribute ==
    /\ Callable
    /\ \E i \in 1..Len(TheModel.tracks), name \in ReadNames :
          /\ bld' = [bld EXCEPT !.out =
                       Output("getattr", <<i, name>>, GetAttr(TheModel.tracks[i].dict, name))]
          /\ model' = Some([Val(model) EXCEPT ![i] = AfterRead(@, name)])
    /\ UNCHANGED <<doc, engineVars>>

\* a == b
Compare ==
    /\ Callable
    /\ \E a \in {TheModel} \cup { TheModel.tracks[i] : i \in 1..Len(TheModel.tracks) },
          b \in Comparands :
          bld' = [bld EXCEPT !.out = Output("eq", <<a, b>>, PyEq(a, b))]
    /\ UNCHANGED <<doc, model, engineVars>>

\* pickle.loads(pickle.dumps(media_info))
RoundTrip ==
    /\ Callable
    /\ bld' = [bld EXCEPT !.out = Output("restore", <<>>, Restored(TheModel))]
    /\ UNCHANGED <<doc, model, engineVars>>

\* media_info.general_tracks, ..., media_info.menu_tracks
View ==
    /\ Callable
    /\ \E v \in Views :
          bld' = [bld EXCEPT !.out = Output("view", v, Tracks(TheModel, v))]
    /\ UNCHANGED <<doc, model, engineVars>>

\* media_info.to_data()
ToDataCall ==
    /\ Callable
    /\ bld' = [bld EXCEPT !.out = Output("to_data", <<>>, MediaInfoToData(TheModel))]
    /\ UNCHANGED <<doc, model, engineVars>>

\* media_info.to_json()
ToJsonCall ==
    /\ Callable
    /\ bld' = [bld EXCEPT !.out = Output("to_json", <<>>, ToJson(TheModel))]
    /\ UNCHANGED <<doc, model, engineVars>>

NextDoc == BeginModel \/ BeginTrack \/ Child \/ Pass \/ EndTrack \/ EndModel

\* construction followed by a call on the finished model
NextCalls ==
    \/ BeginModel \/ BeginTrack \/ Child \/ Pass \/ EndTrack \/ EndModel
    \/ GetAttribute \/ Compare \/ RoundTrip \/ View \/ ToDataCall \/ ToJsonCall

DocIdle ==
    /\ doc = None
    /\ bld = IdleBuild
    /\ model = None

(***************************************************************************)
(* Spec: invocations one after another, with any parameters                *)
(***************************************************************************)
EngineInit ==
    /\ inv = [t \in Threads |-> IdleFrame]
    /\ libOptions = DefaultOptions
    /\ handleState = [h \in Handles |-> "free"]
    /\ started = 0

Init ==
    /\ EngineInit
    /\ library \in Libraries
    /\ job = None
    /\ DocIdle

\* the caller (thread 1) calls MediaInfo.parse or MediaInfo.can_parse again once
\* its previous call has ended
Start(t) ==
    /\ started < MaxInvocations
    /\ t = 1
    /\ ~InFlight(inv[t])
    /\ \E j \in SeqJobs : Put(t, NewFrame(j))
    /\ started' = started + 1
    /\ UNCHANGED <<libOptions, handleState, library, job, docVars>>

Next == \E t \in Threads : Start(t) \/ Step(t)

Spec == Init /\ [][Next]_vars

(***************************************************************************)
(* SpecConc: concurrent invocations with identical parameters              *)
(***************************************************************************)
InitConc ==
    /\ EngineInit
    /\ library \in ConcLibraries
    /\ job \in { Some(j) : j \in ConcJobs }
    /\ DocIdle

\* each thread makes the same call with the shared parameters; extra options,
\* when the parameters hold any, are passed by the first thread only
StartConc(t) ==
    /\ inv[t].pc = "idle"
    /\ Put(t, NewFrame(IF t = 1 THEN Val(job) ELSE [Val(job) EXCEPT !.opts = None]))
    /\ started' = started + 1
    /\ UNCHANGED <<libOptions, handleState, library, job, docVars>>

NextConc == \E t \in Threads : StartConc(t) \/ Step(t)

SpecConc == InitConc /\ [][NextConc]_vars

(***************************************************************************)
(* SpecDoc: MediaInfo(xml) on documents of every layout                    *)
(* SpecTrack: MediaInfo(xml) on one track with every list of children      *)
(***************************************************************************)
Attr(tag, text) == Elem(tag, None, text, <<>>)
TrackElem(type, kids) == Elem(Chars("track"), Some(type), None, kids)
TrackA == TrackElem(<<"A">>, <<>>)
TrackB == TrackElem(<<"B">>, <<Attr(<<"D">>, Some(<<"a">>)), Attr(<<"D">>, Some(<<"5">>))>>)
\* a track whose child element is itself tagged track
TrackNested == TrackElem(<<"A">>, <<Attr(Chars("track"), Some(<<"5">>))>>)
FileElem(kids) == Elem(Chars("File"), None, None, kids)
\* an element of another tag that holds a track
Wrapper == Elem(<<"x">>, None, None, <<TrackA>>)

FileElems ==
    { FileElem(ks) : ks \in SeqsUpTo({TrackA, TrackB}, MaxInFile) }
    \cup { FileElem(<<Wrapper, TrackB>>) }
TopElems == { TrackA, TrackB, TrackNested, Wrapper } \cup FileElems
LayoutDocs ==
    { Elem(Chars(root), None, None, ks) :
        root \in {"File", "Mediainfo"}, ks \in SeqsUpTo(TopElems, MaxTop) }

AttrTags == { <<"D">>, <<"_", "d">>, <<"E">> }
AttrTexts == { None, Some(<<"5">>), Some(<<"a">>), Some(<<" ", "7">>) }
AttrElems == { Attr(tag, text) : tag \in AttrTags, text \in AttrTexts }
TrackDocs ==
    { Elem(Chars("File"), None, None, <<TrackElem(<<"A">>, ks)>>) :
        ks \in SeqsUpTo(AttrElems, MaxChildren) }

InitDoc ==
    /\ EngineInit
    /\ library = Newest
    /\ job = None
    /\ doc \in { Some(d) : d \in LayoutDocs }
    /\ bld = IdleBuild
    /\ model = None

SpecDoc == InitDoc /\ [][NextDoc]_vars

InitTrack ==
    /\ EngineInit
    /\ library = Newest
    /\ job = None
    /\ doc \in { Some(d) : d \in TrackDocs }
    /\ bld = IdleBuild
    /\ model = None

SpecTrack == InitTrack /\ [][NextDoc]_vars

\* SpecNames: tracks whose children carry the names the class itself uses
\* (track_type, to_data, other_<name>), id and track_id, and an ordinary name
NameTags ==
    { <<"D">>, <<"_", "I", "D", "_">>, Chars("track_id"), Chars("other_") \o <<"D">>,
      <<"T", "r", "a", "c", "k", "_", "T", "y", "p", "e">>, Chars("to_data") }
NameTexts == { Some(<<"5">>), Some(<<"a">>) }
NameElems == { Attr(tag, text) : tag \in NameTags, text \in NameTexts }
\* a repeated name together with a child called other_<name>, in both orders
CompanionKids ==
    { <<Attr(<<"D">>, Some(<<"a">>)), Attr(<<"D">>, Some(<<"5">>)),
        Attr(Chars("other_") \o <<"D">>, Some(<<"a">>))>>,
      <<Attr(Chars("other_") \o <<"D">>, Some(<<"a">>)),
        Attr(<<"D">>, Some(<<"a">>)), Attr(<<"D">>, Some(<<"5">>))>> }
\* a tag with surrounding whitespace, as an element built in code can have
SpacedKids ==
    { <<Attr(<<" ", "_", "D", " ">>, Some(<<"a">>)), Attr(<<"D">>, Some(<<"5">>))>> }
NameDocs ==
    { Elem(Chars("File"), None, None, <<TrackElem(type, ks)>>) :
        type \in { Chars("Audio"), <<"7">> },
        ks \in SeqsUpTo(NameElems, MaxNamed) \cup CompanionKids \cup SpacedKids }

InitNames ==
    /\ EngineInit
    /\ library = Newest
    /\ job = None
    /\ doc \in { Some(d) : d \in NameDocs }
    /\ bld = IdleBuild
    /\ model = None

SpecNames == InitNames /\ [][NextCalls]_vars

\* SpecViews: tracks of the kinds the views select, and of another kind
KindTracks ==
    { TrackElem(Chars(k), <<>>) : k \in {"General", "Video", "Audio", "Chapters"} }
    \cup { TrackElem(Chars("Video"),
                     <<Attr(<<"D">>, Some(<<"a">>)), Attr(<<"D">>, Some(<<"5">>))>>) }
KindDocs ==
    { Elem(Chars("File"), None, None, ks) : ks \in SeqsUpTo(KindTracks, MaxTracks) }

InitViews ==
    /\ EngineInit
    /\ library = Newest
    /\ job = None
    /\ doc \in { Some(d) : d \in KindDocs }
    /\ bld = IdleBuild
    /\ model = None

SpecViews == InitViews /\ [][NextCalls]_vars

(***************************************************************************)
(* Properties of MediaInfo.parse and MediaInfo.can_parse                   *)
(***************************************************************************)
Ended(f) == f.pc = "done"
IsParse(f) == ~IsNone(f.job) /\ Job(f).op = "parse"
\* _get_library returned, so the invocation holds a handle
Obtained(f) == f.version # <<>>
Calls(f, fn) == { i \in 1..Len(f.calls) : f.calls[i].f = fn }
ClosedThenDestroyed(f) ==
    \E i \in Calls(f, "Close") : \E k \in Calls(f, "Delete") : i < k
AcquisitionCalls ==
    {"Open", "Open_Buffer_Init", "Open_Buffer_Continue",
     "Open_Buffer_Continue_GoTo_Get", "Open_Buffer_Finalize"}
HasScheme(name) ==
    \E i \in 1..Len(name) :
        i + 2 <= Len(name) /\ name[i] = ":" /\ name[i + 1] = "/" /\ name[i + 2] = "/"

\* C1: every parse invocation that obtained a native handle has closed and then
\* destroyed it by the time it returns or raises, on every exit path.
C1_HandleReleasedOnEveryExit ==
    \A t \in Threads :
        (Ended(inv[t]) /\ IsParse(inv[t]) /\ Obtained(inv[t]))
            => ClosedThenDestroyed(inv[t])

\* the result a single invocation of job j returns when it runs alone, from a
\* library whose options are at their defaults
RECURSIVE ApplyCalls(_, _)
ApplyCalls(store, cs) ==
    IF cs = <<>> THEN store
    ELSE ApplyCalls(NativeOption(store, Head(cs)[1], Head(cs)[2]), Tail(cs))
AloneReport(j, version) ==
    [src |-> j.src, obs |-> {ApplyCalls(DefaultOptions, FixedCalls(j, version))}]
AloneOutcome(j) ==
    IF j.src.kind = "path" /\ ~j.src.openOk
    THEN IF HasScheme(j.src.name) \/ j.src.exists THEN "RuntimeError" ELSE "FileNotFoundError"
    ELSE IF j.src.kind = "stream" /\ ~IsNone(j.src.mode) /\ j.src.mode # Some(<<"r", "b">>)
    THEN "ValueError"
    ELSE "returned"
AloneResult(j, version) ==
    IF AloneOutcome(j) # "returned" THEN None
    ELSE IF IsNone(j.output) THEN Some([type |-> "MediaInfo", of |-> AloneReport(j, version)])
    ELSE Some([type |-> "str", of |-> AloneReport(j, version)])

\* no invocation made so far passed extra options
NoExtraOptions ==
    \A u \in Threads : IsNone(inv[u].job) \/ IsNone(Job(inv[u]).opts)

C3_NoCustomOptionSurvives ==
    \A t \in Threads :
        (/\ IsParse(inv[t])
         /\ inv[t].pc \in {"probe", "open", "buf_init", "read", "continue", "inform"}
         /\ TupleGE(inv[t].version, <<19, 9>>)
         /\ IsNone(Job(inv[t]).opts))
            => \A k \in CustomKeys : libOptions[k] = Default

\* C4: every invocation constructs its own native handle and makes its native
\* calls on that handle only, and no two invocations in flight hold the same
\* handle.
C4_HandlePerInvocation ==
    /\ \A t \in Threads :
          inv[t].handle # 0
              => /\ inv[t].calls[1].f = "New"
                 /\ \A i \in 1..Len(inv[t].calls) : inv[t].calls[i].h = inv[t].handle
    /\ \A t, u \in Threads :
          (t # u /\ InFlight(inv[t]) /\ InFlight(inv[u]) /\ inv[t].handle # 0)
              => inv[t].handle # inv[u].handle

\* a parse and another invocation are in flight together, each with a handle
C4_Witness ==
    /\ InFlight(inv[1]) /\ InFlight(inv[2])
    /\ inv[1].handle # 0 /\ inv[2].handle # 0
    /\ IsParse(inv[1]) /\ inv[1].pc = "inform"

\* the invocation made its open-by-path call and the call returned 0
OpenFailed(f) ==
    /\ IsParse(f) /\ Job(f).src.kind = "path" /\ ~Job(f).src.openOk
    /\ Calls(f, "Open") # {}

\* C5: when open-by-path returns 0, Inform is never called, the handle is closed
\* and destroyed before the invocation fails, and it fails with Not-Found
\* exactly when the source has no "://" and does not exist, with Open-Failure
\* otherwise.
C5_OpenFailure ==
    \A t \in Threads :
        OpenFailed(inv[t])
            => /\ Calls(inv[t], "Inform") = {}
               /\ inv[t].outcome \in {"none", "FileNotFoundError", "RuntimeError"}
               /\ Ended(inv[t])
                    => /\ ClosedThenDestroyed(inv[t])
                       /\ handleState[inv[t].handle] = "deleted"
                       /\ inv[t].outcome # "none"
                       /\ inv[t].result = None
                       /\ inv[t].outcome = "FileNotFoundError"
                            <=> (~HasScheme(Job(inv[t]).src.name) /\ ~Job(inv[t]).src.exists)

\* a URL-shaped source that does not exist locally failed with Open-Failure
C5_Witness ==
    \E t \in Threads :
        /\ OpenFailed(inv[t]) /\ Ended(inv[t])
        /\ HasScheme(Job(inv[t]).src.name) /\ ~Job(inv[t]).src.exists
        /\ inv[t].outcome = "RuntimeError"

IsStream(f) == IsParse(f) /\ Job(f).src.kind = "stream"
LacksB(mode) == ~IsNone(mode) /\ \A i \in 1..Len(Val(mode)) : Val(mode)[i] # "b"

\* C6: a file-like source whose mode lacks "b" makes parse fail with Mode-Error,
\* with no result and no buffer-init, buffer-continue, buffer-finalize,
\* open-by-path or Inform call, whatever its content; a file-like source with
\* no mode attribute is accepted as binary.
C6_TextModeRejected ==
    \A t \in Threads :
        (IsStream(inv[t]) /\ Obtained(inv[t]))
            => /\ LacksB(Job(inv[t]).src.mode)
                    => /\ \A fn \in AcquisitionCalls \cup {"Inform"} : Calls(inv[t], fn) = {}
                       /\ Ended(inv[t])
                            => inv[t].outcome = "ValueError" /\ inv[t].result = None
               /\ IsNone(Job(inv[t]).src.mode) => inv[t].outcome # "ValueError"

\* a text-mode stream with content was rejected
C6_Witness ==
    \E t \in Threads :
        /\ IsStream(inv[t]) /\ Ended(inv[t]) /\ LacksB(Job(inv[t]).src.mode)
        /\ Job(inv[t]).src.size > 0
        /\ inv[t].outcome = "ValueError"

\* C7: the Mode-Error of a stream that is not binary-mode is raised before any
\* native call of the invocation, and no native handle is left unreleased.
C7_ModeErrorBeforeNativeCalls ==
    \A t \in Threads :
        (Ended(inv[t]) /\ IsStream(inv[t]) /\ inv[t].outcome = "ValueError")
            => /\ inv[t].calls = <<>>
               /\ inv[t].handle = 0 \/ handleState[inv[t].handle] = "deleted"

DefaultKeyword(version) ==
    IF version[1] > 17 \/ (version[1] = 17 /\ version[2] >= 10) THEN "OLDXML" ELSE "XML"
InformOptionCalls(f) ==
    { i \in Calls(f, "Option") : f.calls[i].k = "Inform" }

\* C8: with an output format (any string, the empty one included) the Inform
\* option is set to exactly that string and parse returns the report text as
\* it is, building no model; without one the Inform option is set to the
\* default keyword of the version and parse returns the model built from the
\* report.
C8_OutputSelectsResult ==
    \A t \in Threads :
        IsParse(inv[t])
            => /\ \A i \in InformOptionCalls(inv[t]) :
                    inv[t].calls[i].v =
                        IF IsNone(Job(inv[t]).output) THEN DefaultKeyword(inv[t].version)
                        ELSE Val(Job(inv[t]).output)
               /\ inv[t].pc \in {"probe", "done"} /\ Obtained(inv[t])
                    => Cardinality(InformOptionCalls(inv[t])) = 1
               /\ (Ended(inv[t]) /\ inv[t].outcome = "returned")
                    => /\ Val(inv[t].result).of = Val(inv[t].info)
                       /\ Val(inv[t].result).type =
                            IF IsNone(Job(inv[t]).output) THEN "MediaInfo" ELSE "str"

\* parse returned text for the empty output format
C8_Witness ==
    \E t \in Threads :
        /\ IsParse(inv[t]) /\ Ended(inv[t]) /\ inv[t].outcome = "returned"
        /\ Job(inv[t]).output = Some("")
        /\ Val(inv[t].result).type = "str"

(***************************************************************************)
(* Properties of MediaInfo.__init__ and Track.__init__                     *)
(***************************************************************************)
Built == bld.pc = "done"
IsTrack(e) == e.tag = <<"t", "r", "a", "c", "k">>
IsFile(e) == e.tag = <<"F", "i", "l", "e">>

\* the elements tagged track of a document, at any depth, in document order
TracksBelow(e) ==
    Flatten([i \in 1..Len(e.kids) |->
        (IF IsTrack(e.kids[i]) THEN <<e.kids[i]>> ELSE <<>>)
        \o Flatten([k \in 1..Len(e.kids[i].kids) |->
              (IF IsTrack(e.kids[i].kids[k]) THEN <<e.kids[i].kids[k]>> ELSE <<>>)
              \o SelectSeq(e.kids[i].kids[k].kids, IsTrack)])])
DeepTracks(e) ==
    Flatten([i \in 1..Len(e.kids) |-> TracksBelow(e.kids[i])])
\* layout 1: the root is tagged File and every track element is its child
DirectLayout(root) ==
    IsFile(root) /\ DeepTracks(root) = <<>>
\* layout 2: another root, and every track element is a child of a File element
\* that is a child of the root
WrappedLayout(root) ==
    /\ ~IsFile(root)
    /\ \A i \in 1..Len(root.kids) :
          /\ ~IsTrack(root.kids[i])
          /\ ~IsFile(root.kids[i]) => TracksBelow(root.kids[i]) = <<>>
          /\ \A k \in 1..Len(root.kids[i].kids) :
                SelectSeq(root.kids[i].kids[k].kids, IsTrack) = <<>>

\* C9: for a document in either accepted layout with N track elements, the model
\* holds exactly N records, the i-th built from the i-th track element in
\* document order.
C9_OneRecordPerTrack ==
    (~IsNone(doc) /\ (DirectLayout(Val(doc)) \/ WrappedLayout(Val(doc))))
        => /\ bld.pc # "raised"
           /\ Built =>
                LET elems == TracksBelow(Val(doc))
                    tracks == Val(model)
                IN  /\ Len(tracks) = Len(elems)
                    /\ \A i \in 1..Len(elems) :
                          /\ tracks[i][Chars("track_type")] = VStr(Val(elems[i].type))
                          /\ \A k \in 1..Len(elems[i].kids) :
                                NodeName(elems[i].kids[k].tag) \in DOMAIN tracks[i]
                          /\ elems[i].kids = <<>> => DOMAIN tracks[i] = {Chars("track_type")}

\* three records built, in order, from the tracks of two File wrappers
C9_Witness ==
    /\ Built /\ WrappedLayout(Val(doc))
    /\ Len(Val(model)) >= 3
    /\ Val(model)[1][Chars("track_type")] = VStr(<<"B">>)
    /\ Val(model)[2][Chars("track_type")] = VStr(<<"A">>)

\* the raw texts of the occurrences of a normalized name among the children
Occurrences(kids, name) ==
    LET hits == SelectSeq(kids, LAMBDA e : NodeName(e.tag) = name)
    IN  [i \in 1..Len(hits) |-> hits[i].text]
Coercible(text) == ~IsNone(text) /\ IsIntLiteral(Val(text))
FirstCoercibleText(occ) ==
    occ[CHOOSE i \in 1..Len(occ) :
            Coercible(occ[i]) /\ \A k \in 1..(i - 1) : ~Coercible(occ[k])]

\* C10: for every attribute name with two or more occurrences in a track
\* element, at least one of them integer-coercible, the record's scalar for the
\* name is the integer of the first coercible occurrence in document order.
C10_ScalarIsFirstInteger ==
    Built =>
        \A i \in 1..Len(bld.found) :
            \A name \in { NodeName(bld.found[i].kids[k].tag) : k \in 1..Len(bld.found[i].kids) } :
                LET occ == Occurrences(bld.found[i].kids, name)
                IN  (Len(occ) >= 2 /\ \E k \in 1..Len(occ) : Coercible(occ[k]))
                        => GetAttr(Val(model)[i], name) =
                               VInt(IntLiteralValue(Val(FirstCoercibleText(occ))))

\* the normalized names of the children of a track element
NamesOf(e) == { NodeName(e.kids[k].tag) : k \in 1..Len(e.kids) }
\* a sequence without its j-th element
Without(seq, j) == SubSeq(seq, 1, j - 1) \o SubSeq(seq, j + 1, Len(seq))
\* the value a record holds for a raw text taken as the scalar: the text, or
\* its integer
ScalarOf(v, text) ==
    \/ v = TextValue(text)
    \/ Coercible(text) /\ v = VInt(IntLiteralValue(Val(text)))

\* C11: for every attribute name with k >= 2 occurrences in a track element,
\* other_<name> is a list of length k - 1 holding the raw texts of the
\* occurrences not selected as the scalar, in encounter order, whether the
\* scalar is the first occurrence or a promoted later one.
C11_OtherHoldsTheRest ==
    Built =>
        \A i \in 1..Len(bld.found) :
            \A name \in NamesOf(bld.found[i]) :
                LET occ == Occurrences(bld.found[i].kids, name)
                    raw == [k \in 1..Len(occ) |-> TextValue(occ[k])]
                    other == GetAttr(Val(model)[i], OtherName(name))
                IN  Len(occ) >= 2
                        => /\ other.t = "list"
                           /\ Len(other.items) = Len(occ) - 1
                           /\ \E j \in 1..Len(occ) :
                                 /\ other.items = Without(raw, j)
                                 /\ ScalarOf(GetAttr(Val(model)[i], name), occ[j])

\* every child of the track element has a name of its own
AllSingle(e) ==
    \A name \in NamesOf(e) : Len(Occurrences(e.kids, name)) = 1

\* C12: a normalized name that occurs exactly once in a track element (also one
\* that begins with other_) is stored as the element's raw text, not coerced,
\* not wrapped in a list, and without an other_<name> companion.
C12_SingleOccurrenceIsRaw ==
    /\ (bld.pc = "raised" /\ bld.exc # "KeyError") => ~AllSingle(bld.found[bld.ti])
    /\ Built =>
          \A i \in 1..Len(bld.found) :
              \A name \in NamesOf(bld.found[i]) :
                  LET occ == Occurrences(bld.found[i].kids, name)
                  IN  Len(occ) = 1
                          => /\ GetAttr(Val(model)[i], name) = TextValue(occ[1])
                             /\ OtherName(name) \notin DOMAIN Val(model)[i]

\* the last call read attribute name of record i
ReadOf(i, name) == bld.out.op = "getattr" /\ bld.out.arg = <<i, name>>

\* C13 as stated: reading any name that was never set on a record returns None.
C13_AnyUnsetNameReadsNone ==
    \A i \in 1..Len(bld.tracks), name \in ReadNames :
        (ReadOf(i, name) /\ name \notin DOMAIN bld.tracks[i])
            => bld.out.value = VNone

\* C13: reading a name that was never set on a record and is not a member of
\* the Track class returns None and does not raise.
C13_UnsetDataNameReadsNone ==
    \A i \in 1..Len(bld.tracks), name \in ReadNames \ ClassMembers :
        (ReadOf(i, name) /\ name \notin DOMAIN bld.tracks[i])
            => bld.out.value = VNone

\* a name with no element in the track was read, and None came back
C13_Witness ==
    /\ ReadOf(1, <<"e">>)
    /\ <<"e">> \notin NamesOf(bld.found[1])
    /\ bld.out.value = VNone

\* C14: a record never stores a null for an attribute name, and reading a name
\* that does not occur in the track element gives a result different from
\* reading a name that occurs there with empty text.
C14_NoStoredNull ==
    Built =>
        \A i \in 1..Len(bld.found) :
            LET rec == Val(model)[i]
                e == bld.found[i]
            IN  /\ \A name \in DOMAIN rec : rec[name] # VNone
                /\ \A k \in 1..Len(e.kids), absent \in ReadNames \ ClassMembers :
                      (IsNone(e.kids[k].text) /\ absent \notin DOMAIN rec
                              /\ absent \notin NamesOf(e))
                          => GetAttr(rec, NodeName(e.kids[k].tag)) # GetAttr(rec, absent)

\* C15: a record's track_type equals the type attribute of its track element,
\* for any type string and whatever the children of the track are, a child
\* whose normalized name is track_type included.
C15_KindIsTypeAttribute ==
    Built =>
        \A i \in 1..Len(bld.found) :
            GetAttr(Val(model)[i], Chars("track_type")) = VStr(Val(bld.found[i].type))

\* the last call compared a with b
Compared == bld.out.op = "eq"
\* two track sequences agree in length and, record by record, in kind, in
\* attribute names and in every attribute value
SameRecords(xs, ys) ==
    /\ Len(xs) = Len(ys)
    /\ \A i \in 1..Len(xs) :
          /\ xs[i].cls = ys[i].cls
          /\ DOMAIN xs[i].dict = DOMAIN ys[i].dict
          /\ \A name \in DOMAIN xs[i].dict : xs[i].dict[name] = ys[i].dict[name]

\* C16: models built from identical report strings are equal; models whose
\* track sequences differ in length, in a record's kind or in any attribute
\* name or value are unequal; a record or a model compared with an object of
\* another type is unequal.
C16_StructuralEquality ==
    Compared =>
        LET a == bld.out.arg[1]
            b == bld.out.arg[2]
        IN  /\ a.cls # b.cls => bld.out.value = FALSE
            /\ (a.cls = "MediaInfo" /\ b.cls = "MediaInfo")
                   => (bld.out.value <=> SameRecords(a.tracks, b.tracks))
            /\ (a.cls = "Track" /\ b.cls = "Track")
                   => (bld.out.value <=> SameRecords(<<a>>, <<b>>))
            /\ (a = TheModel /\ b = MediaInfoObj(Val(ModelOf(Val(doc)))))
                   => bld.out.value = TRUE

\* two models whose single records have the same kind and the same attribute
\* names, and differ in one value, compared unequal
C16_Witness ==
    /\ Compared
    /\ bld.out.arg[1] = TheModel /\ bld.out.arg[2].cls = "MediaInfo"
    /\ Len(TheModel.tracks) = 1 /\ Len(bld.out.arg[2].tracks) = 1
    /\ DOMAIN TheModel.tracks[1].dict = DOMAIN bld.out.arg[2].tracks[1].dict
    /\ <<"d">> \in DOMAIN TheModel.tracks[1].dict
    /\ bld.out.value = FALSE

\* the last call took every record's state and restored it into a fresh record
WasRestored == bld.out.op = "restore"

\* C17: a record's state (getstate / to_data) restored into a fresh record
\* (setstate) gives a record equal to the original, and doing so for every
\* record of a model, in order, gives a model equal to the original.
C17_StateRoundTrip ==
    WasRestored =>
        /\ Len(bld.out.value.tracks) = Len(TheModel.tracks)
        /\ \A i \in 1..Len(TheModel.tracks) :
              /\ PyEq(TheModel.tracks[i], bld.out.value.tracks[i])
              /\ ToData(bld.out.value.tracks[i]) = Val(model)[i]
        /\ PyEq(TheModel, bld.out.value)
        /\ SameRecords(TheModel.tracks, bld.out.value.tracks)

\* a record with an integer scalar and an other_ list went through the round trip
C17_Witness ==
    /\ WasRestored
    /\ Len(TheModel.tracks) = 1
    /\ GetAttr(TheModel.tracks[1].dict, <<"d">>).t = "int"
    /\ GetAttr(TheModel.tracks[1].dict, Chars("other_") \o <<"d">>).t = "list"

\* the last call read one of the seven filtered views
Viewed == bld.out.op = "view"
\* the positions, in the track sequence, of the records of a kind
OfKind(tag) ==
    { i \in 1..Len(TheModel.tracks) :
        TheModel.tracks[i].dict[Chars("track_type")] = VStr(Chars(tag)) }
\* the k-th smallest member of a set of positions
KthOf(idx, k) == CHOOSE i \in idx : Cardinality({ j \in idx : j < i }) = k - 1

\* C18: each filtered view returns exactly the records whose kind equals the
\* view's tag, in their relative order in the track sequence, an empty list
\* when there is none; records of other kinds are in no view and stay in the
\* track sequence.
C18_ViewsFilterByKind ==
    Viewed =>
        LET idx == OfKind(bld.out.arg)
        IN  /\ Len(bld.out.value) = Cardinality(idx)
            /\ \A k \in 1..Len(bld.out.value) :
                  bld.out.value[k] = TheModel.tracks[KthOf(idx, k)]
            /\ Len(TheModel.tracks) = Len(bld.found)

\* the video view of a model of three records, the middle one of a kind that
\* no view selects, returned the first and the third
C18_Witness ==
    /\ Viewed /\ bld.out.arg = "Video"
    /\ Len(TheModel.tracks) = 3
    /\ TheModel.tracks[2].dict[Chars("track_type")] = VStr(Chars("Chapters"))
    /\ bld.out.value = <<TheModel.tracks[1], TheModel.tracks[3]>>
    /\ TheModel.tracks[1] # TheModel.tracks[3]

\* a string without the members of cs at its two ends
Trim(s, cs) ==
    LET keep == { i \in 1..Len(s) : s[i] \notin cs }
    IN  IF keep = {} THEN <<>>
        ELSE SubSeq(s, CHOOSE i \in keep : \A j \in keep : i <= j,
                       CHOOSE i \in keep : \A j \in keep : j <= i)
\* the name the claim gives a tag
ExpectedName(tag) ==
    LET n == Trim(Trim(Lower(tag), {" "}), {"_"})
    IN  IF n = <<"i", "d">> THEN <<"t", "r", "a", "c", "k", "_", "i", "d">> ELSE n
ExpectedNames(e) == { ExpectedName(e.kids[k].tag) : k \in 1..Len(e.kids) }
CountOf(e, name) == Cardinality({ k \in 1..Len(e.kids) : ExpectedName(e.kids[k].tag) = name })

\* C19: every child element of a track is stored under its tag lower-cased,
\* stripped of surrounding whitespace and then of leading and trailing
\* underscores, id being stored as track_id; tags with the same normalized
\* name are occurrences of one attribute.
C19_NamesAreNormalized ==
    Built =>
        \A i \in 1..Len(bld.found) :
            LET e == bld.found[i]
                rec == Val(model)[i]
            IN  /\ ExpectedNames(e) \subseteq DOMAIN rec
                /\ DOMAIN rec \subseteq
                       {Chars("track_type")} \cup ExpectedNames(e)
                           \cup { Chars("other_") \o n : n \in ExpectedNames(e) }
                /\ \A n \in ExpectedNames(e) :
                      CountOf(e, n) >= 2
                          => /\ Chars("other_") \o n \in DOMAIN rec
                             /\ rec[Chars("other_") \o n].t = "list"
                             /\ Len(rec[Chars("other_") \o n].items) >= CountOf(e, n) - 1

\* the tags _ID_ and track_id were stored as one attribute, track_id, with an
\* other_track_id list
C19_Witness ==
    /\ Built
    /\ Len(bld.found[1].kids) = 2
    /\ bld.found[1].kids[1].tag = <<"_", "I", "D", "_">>
    /\ bld.found[1].kids[2].tag = <<"t", "r", "a", "c", "k", "_", "i", "d">>
    /\ DOMAIN Val(model)[1] =
          { Chars("track_type"), Chars("track_id"), Chars("other_") \o Chars("track_id") }

\* the library files an invocation tries, and what loading each yields
TriedPaths(f) == LibraryPaths(Job(f).library_file, library)
TriedLibraries(f) == Candidates(Job(f).library_file, library)
\* none of them both loads and reports a version
AllFail(f) ==
    \A i \in 1..Len(TriedLibraries(f)) : TriedLibraries(f)[i].k \in {"oserror", "noversion"}

\* C20: when every candidate library fails to load or fails version parsing,
\* resolution fails with a Load-Error (OSError) whose message lists every
\* attempted path and every candidate's error; a given library file is the
\* only candidate, and its path is in the message.
C20_LoadErrorListsAll ==
    \A t \in Threads :
        (Ended(inv[t]) /\ IsParse(inv[t]) /\ AllFail(inv[t]))
            => /\ inv[t].outcome = "OSError"
               /\ inv[t].message.paths = TriedPaths(inv[t])
               /\ Len(inv[t].message.exceptions) = Len(TriedPaths(inv[t]))
               /\ ~IsNone(Job(inv[t]).library_file)
                     => inv[t].message.paths = <<<<"given", 1>>>>

\* the first candidate that both loads and reports a version, 0 when none does
FirstUsable(cands) ==
    IF \E i \in 1..Len(cands) : cands[i].k = "ok"
    THEN CHOOSE i \in 1..Len(cands) :
            cands[i].k = "ok" /\ \A j \in 1..(i - 1) : cands[j].k # "ok"
    ELSE 0

\* C21: a candidate that loads but whose version string cannot be parsed is
\* treated as a failed candidate and the next one is tried, so that a later
\* usable candidate is still the one returned.
C21_UnparsedVersionMovesOn ==
    \A t \in Threads :
        (/\ ~IsNone(inv[t].job) /\ inv[t].pc # "get_library"
         /\ FirstUsable(TriedLibraries(inv[t])) # 0)
            => /\ Obtained(inv[t])
               /\ inv[t].version =
                    TriedLibraries(inv[t])[FirstUsable(TriedLibraries(inv[t]))].ver

IsProbe(f) == ~IsNone(f.job) /\ Job(f).op = "can_parse"

\* C22: can_parse never raises; it returns True exactly when a library was
\* loaded, yielded a handle, and that handle was closed and then destroyed,
\* and False for any failure during the probe.
C22_ProbeNeverRaises ==
    \A t \in Threads :
        IsProbe(inv[t])
            => /\ inv[t].outcome \in {"none", "returned"}
               /\ Ended(inv[t])
                    => /\ inv[t].result \in {Some(TRUE), Some(FALSE)}
                       /\ inv[t].result = Some(TRUE)
                            <=> /\ Calls(inv[t], "New") # {}
                                /\ Obtained(inv[t])
                                /\ ClosedThenDestroyed(inv[t])
                                /\ handleState[inv[t].handle] = "deleted"

\* a probe whose library loaded and gave a handle, but no version, answered False
C22_Witness ==
    \E t \in Threads :
        /\ IsProbe(inv[t]) /\ Ended(inv[t])
        /\ Calls(inv[t], "New") # {}
        /\ inv[t].result = Some(FALSE)

(***************************************************************************)
(* SpecXml: MediaInfo(xml) called on text that may not be well-formed, and *)
(* parse called on a library whose report may not be well-formed           *)
(***************************************************************************)
XmlLibraries == { <<Cand("ok", <<20, 3, 1>>)>>, <<Cand("notxml", <<20, 3, 1>>)>> }
XmlDocs == { Malformed, FileElem(<<TrackB>>) }

InitXml ==
    /\ EngineInit
    /\ library \in XmlLibraries
    /\ job = None
    /\ doc \in { Some(d) : d \in XmlDocs }
    /\ bld = IdleBuild
    /\ model = None

StartXml(t) ==
    /\ started < MaxInvocations
    /\ t = 1
    /\ ~InFlight(inv[t])
    /\ \E j \in ConcJobs : Put(t, NewFrame(j))
    /\ started' = started + 1
    /\ UNCHANGED <<libOptions, handleState, library, job, docVars>>

NextXml == (\E t \in Threads : StartXml(t) \/ Step(t)) \/ NextDoc

SpecXml == InitXml /\ [][NextXml]_vars

\* C23: a malformed document fails model construction with ParseError, with
\* no model produced and nothing retried; inside parse the report is turned
\* into a model only after the handle was closed and destroyed, so that a
\* ParseError raised there leaves no handle open.
C23_ParseErrorPropagates ==
    /\ (~IsNone(doc) /\ bld.pc # "idle")
          => IF WellFormed(Val(doc))
             THEN bld.exc # "ParseError"
             ELSE /\ bld.pc = "raised" /\ bld.exc = "ParseError"
                  /\ bld.tracks = <<>> /\ model = None
    /\ \A t \in Threads :
          (IsParse(inv[t]) /\ Ended(inv[t]))
              => /\ inv[t].outcome = "ParseError"
                    <=> /\ Calls(inv[t], "Inform") # {}
                        /\ IsNone(Job(inv[t]).output)
                        /\ ~inv[t].xml
                 /\ inv[t].outcome = "ParseError"
                    => /\ inv[t].result = None
                       /\ Cardinality(Calls(inv[t], "New")) = 1
                       /\ Cardinality(Calls(inv[t], "Inform")) = 1
                       /\ ClosedThenDestroyed(inv[t])
                       /\ inv[t].calls[Len(inv[t].calls)].f = "Delete"
                       /\ handleState[inv[t].handle] = "deleted"

\* MediaInfo(xml) raised ParseError on malformed text, and a parse whose
\* report was not well-formed raised it too
C23_Witness ==
    /\ ~IsNone(doc) /\ ~WellFormed(Val(doc)) /\ bld.pc = "raised"
    /\ \E t \in Threads :
          IsParse(inv[t]) /\ Ended(inv[t]) /\ inv[t].outcome = "ParseError"

(***************************************************************************)
(* SpecFeed: one invocation; the stream sources have every size, every     *)
(* buffer size and every script of answers of the native library           *)
(***************************************************************************)
FeedStreams ==
    UNION { { StreamSource(Some(<<"r", "b">>), sz, sc, FALSE) :
                sc \in SeqsUpTo(Responses(sz), FeedScript) } : sz \in 0..FeedSize }
FeedJobs ==
    { ParseJob(src, None, None, DefaultFlags, <<"float", 5>>, b) :
        src \in FeedStreams, b \in 1..FeedSize }
    \cup UNION { { DefaultJob(StartingAt(StreamSource(Some(<<"r", "b">>), sz, <<>>, FALSE), k)) :
                     k \in 0..sz } : sz \in 0..FeedSize }
    \cup ConcJobs

InitFeed ==
    /\ EngineInit
    /\ library = Newest
    /\ job = None
    /\ DocIdle

StartFeed(t) ==
    /\ started = 0
    /\ t = 1
    /\ \E j \in FeedJobs : Put(t, NewFrame(j))
    /\ started' = started + 1
    /\ UNCHANGED <<libOptions, handleState, library, job, docVars>>

NextFeed == \E t \in Threads : StartFeed(t) \/ Step(t)

SpecFeed == InitFeed /\ [][NextFeed]_vars

\* the number of bytes passed to buffer-continue so far
RECURSIVE BytesFed(_)
BytesFed(calls) ==
    IF calls = <<>> THEN 0
    ELSE (IF Head(calls).f = "Open_Buffer_Continue" THEN Head(calls).v[1] ELSE 0)
         + BytesFed(Tail(calls))
\* the loop was left: buffer-finalize is the next call, or was made
LoopLeft(f) == f.pc = "finalize" \/ Calls(f, "Open_Buffer_Finalize") # {}
\* the last call made before buffer-finalize
LastInLoop(f) ==
    IF Calls(f, "Open_Buffer_Finalize") = {} THEN f.calls[Len(f.calls)]
    ELSE f.calls[(CHOOSE i \in Calls(f, "Open_Buffer_Finalize") : TRUE) - 1]
NeverFinishesNorSeeks(src) ==
    \A i \in 1..Len(src.script) : ~src.script[i].fin /\ src.script[i].goto = SENTINEL

\* C24: the feed loop is left only when buffer-continue returned a status
\* with the finished bit or when a read returned an empty chunk; a source
\* whose answers never have the finished bit and never ask for a seek leaves
\* it through the empty read after all its bytes were fed; an empty chunk is
\* never passed to buffer-continue.
C24_FeedLoopExits ==
    \A t \in Threads :
        IsStream(inv[t])
            => /\ \A i \in Calls(inv[t], "Open_Buffer_Continue") : inv[t].calls[i].v[1] > 0
               /\ LoopLeft(inv[t])
                    => \/ inv[t].buffer = 0
                       \/ /\ LastInLoop(inv[t]).f = "Open_Buffer_Continue"
                          /\ Response(inv[t]).fin
               /\ (LoopLeft(inv[t]) /\ NeverFinishesNorSeeks(Job(inv[t]).src))
                    => /\ inv[t].buffer = 0
                       /\ LastInLoop(inv[t]).f # "Open_Buffer_Continue"
                       /\ BytesFed(inv[t].calls) = Job(inv[t]).src.size

\* a two-byte source read one byte at a time left the loop by the empty read
C24_Witness ==
    \E t \in Threads :
        /\ IsStream(inv[t]) /\ LoopLeft(inv[t])
        /\ NeverFinishesNorSeeks(Job(inv[t]).src)
        /\ Cardinality(Calls(inv[t], "Open_Buffer_Continue")) = 2
        /\ inv[t].buffer = 0

(***************************************************************************)
(* SpecVersions: one invocation on a library of any version                *)
(***************************************************************************)
\* tuple(int(_) for _ in lib_version_str.split(".")) (311-312), the version
\* string being held as its components
VersionTuple(str) == [i \in 1..Len(str) |-> IntLiteralValue(str[i])]
VersionStrings ==
    { << <<"0">>, <<"7">> >>, << <<"1", "7">> >>,
      << <<"1", "7">>, <<"0", "9">> >>, << <<"1", "7">>, <<"9">>, <<"9">> >>,
      << <<"1", "7">>, <<"1", "0">> >>, << <<"1", "7">>, <<"1", "0">>, <<"1">> >>,
      << <<"1", "8">> >>, << <<"1", "8">>, <<"0", "2">> >>,
      << <<"1", "8">>, <<"0", "3">> >>, << <<"1", "8">>, <<"0", "3">>, <<"1">> >>,
      << <<"1", "9">>, <<"0", "8">> >>, << <<"1", "9">>, <<"0", "9">> >>,
      << <<"2", "0">>, <<"0", "3">>, <<"1">> >> }
VersionJobs ==
    { ParseJob(GoodPath, out, opts, flags, <<"float", 5>>, 1) :
        out \in {None, Some("JSON")}, opts \in ExtraOptions, flags \in FlagProfiles }
    \cup ConcJobs

InitVersions ==
    /\ EngineInit
    /\ library \in { <<Cand("ok", VersionTuple(str))>> : str \in VersionStrings }
    /\ job = None
    /\ DocIdle

StartVersions(t) ==
    /\ started = 0
    /\ t = 1
    /\ \E j \in VersionJobs : Put(t, NewFrame(j))
    /\ started' = started + 1
    /\ UNCHANGED <<libOptions, handleState, library, job, docVars>>

NextVersions == \E t \in Threads : StartVersions(t) \/ Step(t)

SpecVersions == InitVersions /\ [][NextVersions]_vars

\* a < b for tuples of integers: at the first place where they differ a is
\* smaller, or a is a proper prefix of b
Below(a, b) ==
    \E k \in 0..Len(b) - 1 :
        /\ k <= Len(a)
        /\ \A i \in 1..k : a[i] = b[i]
        /\ k = Len(a) \/ a[k + 1] < b[k + 1]
\* the fixed option calls of the invocation have all been made
Configured(f) == IsParse(f) /\ Obtained(f) /\ f.pc # "config"
OptionCalls(f, key) == { i \in Calls(f, "Option") : f.calls[i].k = key }

\* C25: for a native version below 18.03 parse makes no Cover_Data option
\* call, whether or not cover data was requested; for a version at or after
\* 18.03 it makes exactly one, with value base64 when cover data was
\* requested and the empty string otherwise.
C25_CoverDataByVersion ==
    \A t \in Threads :
        IsParse(inv[t])
            => /\ Below(inv[t].version, <<18, 3>>) => OptionCalls(inv[t], "Cover_Data") = {}
               /\ (Configured(inv[t]) /\ ~Below(inv[t].version, <<18, 3>>))
                    => /\ Cardinality(OptionCalls(inv[t], "Cover_Data")) = 1
                       /\ \A i \in OptionCalls(inv[t], "Cover_Data") :
                             inv[t].calls[i].v = IF Job(inv[t]).cover THEN "base64" ELSE ""

\* cover data was requested from version 18.02, and parse returned having
\* made no Cover_Data call
C25_Witness ==
    \E t \in Threads :
        /\ IsParse(inv[t]) /\ Ended(inv[t]) /\ inv[t].outcome = "returned"
        /\ Job(inv[t]).cover /\ inv[t].version = <<18, 2>>
        /\ OptionCalls(inv[t], "Cover_Data") = {}

\* C26: when no output format is given, the Inform option value is XML for
\* every version tuple ordered below (17, 10) and OLDXML for every version
\* tuple at or after (17, 10), tuples being compared component by component
\* as integers.
C26_XmlKeywordByVersion ==
    \A t \in Threads :
        (Configured(inv[t]) /\ IsNone(Job(inv[t]).output))
            => /\ OptionCalls(inv[t], "Inform") # {}
               /\ \A i \in OptionCalls(inv[t], "Inform") :
                     inv[t].calls[i].v =
                         IF Below(inv[t].version, <<17, 10>>) THEN "XML" ELSE "OLDXML"

\* version 17.09 is below 17.10 although 9 > 1 and "17.09" > "17.10" as text
\* would not be: XML was chosen; and so it was for the one-component 17
C26_Witness ==
    \E t \in Threads :
        /\ Configured(inv[t]) /\ IsNone(Job(inv[t]).output)
        /\ inv[t].version \in { <<17, 9>>, <<17>> }
        /\ \E i \in OptionCalls(inv[t], "Inform") : inv[t].calls[i].v = "XML"

\* the warning check and the extra option calls are behind the invocation
ExtrasDone(f) == Configured(f) /\ f.pc \notin {"extra_check", "extra"}
\* the calls made right after the last fixed option call
AfterFixed(f, n) ==
    LET last == CHOOSE i \in OptionCalls(f, "LegacyStreamDisplay") : TRUE
    IN  [m \in 1..n |-> <<f.calls[last + m].f, f.calls[last + m].k, f.calls[last + m].v>>]

\* C27: a compatibility warning is emitted exactly when extra options are
\* supplied (any mapping, the empty one included) and the native version is
\* below 19.09; the warning is not fatal: the extra options are still applied,
\* acquisition and reporting proceed, and no Reset option call is made.
C27_WarningIsNotFatal ==
    \A t \in Threads :
        ExtrasDone(inv[t])
            => /\ inv[t].warned
                    <=> (~IsNone(Job(inv[t]).opts) /\ Below(inv[t].version, <<19, 9>>))
               /\ inv[t].warned
                    => /\ AfterFixed(inv[t], Len(Val(Job(inv[t]).opts)))
                            = [m \in 1..Len(Val(Job(inv[t]).opts)) |->
                                 <<"Option", Val(Job(inv[t]).opts)[m][1],
                                   Val(Job(inv[t]).opts)[m][2]>>]
                       /\ OptionCalls(inv[t], "Reset") = {}
                       /\ inv[t].outcome \in {"none", "returned"}
                       /\ Ended(inv[t])
                            => /\ Calls(inv[t], "Open") # {}
                               /\ Calls(inv[t], "Inform") # {}
                               /\ inv[t].result =
                                     Some(ParseResult(Job(inv[t]).output, Val(inv[t].info)))

\* an empty mapping of extra options on version 19.08: warned, and returned
C27_Witness ==
    \E t \in Threads :
        /\ IsParse(inv[t]) /\ Ended(inv[t]) /\ inv[t].outcome = "returned"
        /\ Job(inv[t]).opts = Some(<<>>) /\ inv[t].version = <<19, 8>>
        /\ inv[t].warned

\* what the native library answered to the buffer-continue logged at place i:
\* the n-th buffer-continue of an invocation gets the n-th answer of the script
AnswerTo(f, i) ==
    LET n == Cardinality({ j \in Calls(f, "Open_Buffer_Continue") : j <= i })
    IN  IF n <= Len(Job(f).src.script) THEN Job(f).src.script[n]
        ELSE [fin |-> FALSE, goto |-> SENTINEL]

\* where the source stands when nothing was sought since the last buffer-init:
\* at the offset given there plus the bytes fed since
OffsetAfter(calls) ==
    LET inits == { i \in 1..Len(calls) : calls[i].f = "Open_Buffer_Init" }
        last == CHOOSE i \in inits : \A j \in inits : j <= i
    IN  calls[last].v[2] + BytesFed(SubSeq(calls, last + 1, Len(calls)))

\* C28: after a buffer-continue whose status lacks the finished bit, if
\* goto-get returns a position other than the sentinel the source is sought
\* there and buffer-init is re-issued with (total size, new offset) before the
\* next read and the next buffer-continue; if it returns the sentinel neither
\* happens; with the finished bit goto-get is not queried and nothing is sought.
C28_SeekResynchronizes ==
    \A t \in Threads :
        IsStream(inv[t])
            => LET f == inv[t]
                   size == Job(f).src.size
               IN  /\ \A i \in Calls(f, "Open_Buffer_Continue") :
                         /\ i + 1 <= Len(f.calls)
                              => f.calls[i + 1].f =
                                    IF AnswerTo(f, i).fin THEN "Open_Buffer_Finalize"
                                    ELSE "Open_Buffer_Continue_GoTo_Get"
                         /\ (i + 2 <= Len(f.calls) /\ ~AnswerTo(f, i).fin)
                              => IF AnswerTo(f, i).goto # SENTINEL
                                 THEN /\ f.calls[i + 2].f = "Open_Buffer_Init"
                                      /\ f.calls[i + 2].v = <<size, AnswerTo(f, i).goto>>
                                 ELSE f.calls[i + 2].f \in
                                        {"Open_Buffer_Continue", "Open_Buffer_Finalize"}
                   /\ \A i \in Calls(f, "Open_Buffer_Continue_GoTo_Get") :
                         f.calls[i - 1].f = "Open_Buffer_Continue"
                   /\ \A i \in Calls(f, "Open_Buffer_Init") :
                         f.calls[i - 1].f \in {"Option", "Open_Buffer_Continue_GoTo_Get"}
                   \* the next read starts at the offset buffer-init was told
                   /\ (f.pc = "read" /\ f.calls[Len(f.calls)].f = "Open_Buffer_Init")
                         => f.pos = f.calls[Len(f.calls)].v[2]
                   /\ (f.pc = "read" /\ f.calls[Len(f.calls)].f = "Open_Buffer_Continue_GoTo_Get")
                         => f.pos = OffsetAfter(f.calls)

\* after the first byte of a two-byte source the library asked for offset 0:
\* buffer-init(2, 0) was re-issued and the byte was fed again
C28_Witness ==
    \E t \in Threads :
        /\ IsStream(inv[t])
        /\ \E i \in Calls(inv[t], "Open_Buffer_Continue_GoTo_Get") :
              /\ i + 2 <= Len(inv[t].calls)
              /\ inv[t].calls[i + 1].f = "Open_Buffer_Init"
              /\ inv[t].calls[i + 1].v = <<2, 0>>
              /\ inv[t].calls[i + 2].f = "Open_Buffer_Continue"

BufferCalls ==
    {"Open_Buffer_Init", "Open_Buffer_Continue", "Open_Buffer_Continue_GoTo_Get",
     "Open_Buffer_Finalize"}
AcquisitionIndices(f) == { i \in 1..Len(f.calls) : f.calls[i].f \in AcquisitionCalls }

\* C29: a stream-mode parse calls buffer-init(total size, 0) before any
\* buffer-continue, then buffer-finalize exactly once after the loop, then
\* Inform(handle, 0), and never open-by-path; a path-mode parse calls
\* open-by-path exactly once, Inform only after a successful open, and never a
\* buffer primitive.
C29_AcquisitionProtocols ==
    \A t \in Threads :
        IsParse(inv[t])
            => LET f == inv[t]
                   src == Job(f).src
                   acq == AcquisitionIndices(f)
               IN  IF src.kind = "stream"
                   THEN /\ Calls(f, "Open") = {}
                        /\ \A i \in acq :
                              (\A j \in acq : i <= j)
                                  => f.calls[i].f = "Open_Buffer_Init"
                                     /\ f.calls[i].v = <<src.size, 0>>
                        /\ Cardinality(Calls(f, "Open_Buffer_Finalize")) <= 1
                        /\ \A k \in Calls(f, "Open_Buffer_Finalize") :
                              /\ \A j \in acq : j <= k
                              /\ k + 1 <= Len(f.calls)
                                   => f.calls[k + 1].f = "Inform" /\ f.calls[k + 1].v = <<0>>
                        /\ \A i \in Calls(f, "Inform") :
                              f.calls[i - 1].f = "Open_Buffer_Finalize"
                        /\ (Ended(f) /\ f.outcome = "returned")
                              => /\ Cardinality(Calls(f, "Open_Buffer_Finalize")) = 1
                                 /\ Cardinality(Calls(f, "Inform")) = 1
                   ELSE /\ \A fn \in BufferCalls : Calls(f, fn) = {}
                        /\ Cardinality(Calls(f, "Open")) <= 1
                        /\ (Ended(f) /\ Obtained(f)) => Cardinality(Calls(f, "Open")) = 1
                        /\ \A i \in Calls(f, "Inform") :
                              src.openOk /\ f.calls[i - 1].f = "Open"
                        /\ ~src.openOk => Calls(f, "Inform") = {}

\* a stream was fed in two chunks, finalized, and its report asked for
C29_Witness ==
    \E t \in Threads :
        /\ IsStream(inv[t]) /\ Ended(inv[t]) /\ inv[t].outcome = "returned"
        /\ Cardinality(Calls(inv[t], "Open_Buffer_Continue")) >= 2
        /\ Cardinality(Calls(inv[t], "Open_Buffer_Finalize")) = 1
        /\ Calls(inv[t], "Inform") # {}

\* a call that is running keeps running: the interpreter executes the next
\* statement of every invocation in flight
SpecFeedFair == SpecFeed /\ \A t \in Threads : WF_vars(Step(t))

\* the invocation returned after buffer-finalize, Inform, Close and Delete
Released(f) ==
    /\ Ended(f) /\ f.outcome = "returned"
    /\ \A fn \in {"Open_Buffer_Finalize", "Inform", "Close", "Delete"} : Calls(f, fn) # {}

\* C30: for every finite stream source, if the native library asks for only
\* finitely many seeks, the feed loop eventually terminates and
\* buffer-finalize, Inform, Close and Delete are eventually called.
C30_FeedLoopTerminates ==
    \A t \in Threads :
        (IsStream(inv[t]) /\ inv[t].pc = "read") ~> Released(inv[t])

\* a source whose two answers both asked for a seek back to offset 0 was fed
\* to its end and released
C30_Witness ==
    \E t \in Threads :
        /\ IsStream(inv[t]) /\ Released(inv[t])
        /\ Job(inv[t]).src.size = 2
        /\ Len(Job(inv[t]).src.script) = 2
        /\ \A i \in 1..2 : Job(inv[t]).src.script[i] = [fin |-> FALSE, goto |-> 0]

\* the invocation made its Inform call and its Close call
Reported(f) == IsParse(f) /\ Calls(f, "Inform") # {} /\ Calls(f, "Close") # {}

\* C31: in a parse that reaches the reporting step, the Reset option is set
\* exactly once if extra options were supplied and the native version is at
\* or after 19.09, and then after Inform and before Close; it is never set
\* when no extra options were supplied or when the version is below 19.09.
C31_ResetOnceWhenNeeded ==
    \A t \in Threads :
        IsParse(inv[t])
            => LET f == inv[t]
                   needed == ~IsNone(Job(f).opts) /\ ~Below(f.version, <<19, 9>>)
               IN  /\ ~needed => OptionCalls(f, "Reset") = {}
                   /\ \A i \in OptionCalls(f, "Reset") :
                         /\ f.calls[i - 1].f = "Inform"
                         /\ \A k \in Calls(f, "Close") : i < k
                   /\ (Reported(f) /\ needed) => Cardinality(OptionCalls(f, "Reset")) = 1

\* an empty mapping of extra options on version 19.09: Reset was set between
\* Inform and Close
C31_Witness ==
    \E t \in Threads :
        /\ Reported(inv[t]) /\ Ended(inv[t])
        /\ Job(inv[t]).opts = Some(<<>>) /\ inv[t].version = <<19, 9>>
        /\ OptionCalls(inv[t], "Reset") # {}

\* the keys of the first n option calls made after the version query
KeysAfterVersion(f, n) == [m \in 1..n |-> f.calls[2 + m].k]
CommonKeys == <<"CharSet", "Inform", "Complete", "ParseSpeed", "LegacyStreamDisplay">>
CoverKey(version) == IF Below(version, <<18, 3>>) THEN <<>> ELSE <<"Cover_Data">>

\* C32: in every parse invocation the fixed options are set in the order
\* character set, output format (Inform), complete flag, parse speed, legacy
\* stream display and then, for versions at or after 18.03, cover data.
C32_FixedOrderCoverLast ==
    \A t \in Threads :
        Configured(inv[t])
            => KeysAfterVersion(inv[t], 5 + Len(CoverKey(inv[t].version)))
                  = CommonKeys \o CoverKey(inv[t].version)

\* C32 (amended): for versions at or after 18.03 cover data is set first; then,
\* for every version, character set (UTF-8), output format, complete flag,
\* parse speed and legacy stream display, in this order.
C32_FixedOrderCoverFirst ==
    \A t \in Threads :
        Configured(inv[t])
            => /\ KeysAfterVersion(inv[t], 5 + Len(CoverKey(inv[t].version)))
                    = CoverKey(inv[t].version) \o CommonKeys
               /\ \A i \in OptionCalls(inv[t], "CharSet") : inv[t].calls[i].v = "UTF-8"

\* version 18.03 was configured: six fixed option calls, cover data the first
C32_Witness ==
    \E t \in Threads :
        /\ Configured(inv[t]) /\ inv[t].version = <<18, 3>>
        /\ inv[t].calls[3].k = "Cover_Data" /\ inv[t].calls[8].k = "LegacyStreamDisplay"

\* the option calls of the configuring step: all but the version query and Reset
ConfiguringCalls(f) ==
    { i \in Calls(f, "Option") : f.calls[i].k \notin {"Info_Version", "Reset"} }
SuppliedExtras(f) == IF IsNone(Job(f).opts) THEN <<>> ELSE Val(Job(f).opts)

\* C33: caller-supplied extra options are each applied exactly once, with
\* name and value unchanged, in the order supplied and after all fixed
\* options; every option call of the configuring step (cover data included)
\* happens before the first acquisition call and before Inform.
C33_ExtrasVerbatimInOrder ==
    \A t \in Threads :
        IsParse(inv[t])
            => LET f == inv[t]
                   n == Len(SuppliedExtras(f))
                   fixed == 5 + Len(CoverKey(f.version))
               IN  /\ ExtrasDone(f)
                         => /\ AfterFixed(f, n) =
                                  [m \in 1..n |-> <<"Option", SuppliedExtras(f)[m][1],
                                                    SuppliedExtras(f)[m][2]>>]
                            /\ Cardinality(ConfiguringCalls(f)) = fixed + n
                            /\ ConfiguringCalls(f) = 3..(2 + fixed + n)
                   /\ \A i \in ConfiguringCalls(f) :
                         \A k \in AcquisitionIndices(f) \cup Calls(f, "Inform") : i < k

\* two extra options, one of them naming a fixed option, were applied in the
\* order given, and the source was then opened
C33_Witness ==
    \E t \in Threads :
        /\ IsParse(inv[t]) /\ ExtrasDone(inv[t])
        /\ Len(SuppliedExtras(inv[t])) = 2
        /\ AfterFixed(inv[t], 2) = << <<"Option", "Language", "raw">>, <<"Option", "Complete", "">> >>
        /\ Calls(inv[t], "Open") # {}

\* C34: determining the total size of a stream source leaves the source's
\* read position equal to the position it had when parse was called, for any
\* starting position, and the total size passed to buffer-init is the
\* source's end offset.
C34_SizeProbeKeepsPosition ==
    \A t \in Threads :
        IsStream(inv[t])
            => /\ inv[t].pc = "buf_init"
                    => /\ inv[t].pos = Job(inv[t]).src.start
                       /\ inv[t].file_size = Some(Job(inv[t]).src.size)
               /\ \A i \in Calls(inv[t], "Open_Buffer_Init") :
                     inv[t].calls[i].v[1] = Job(inv[t]).src.size

\* the paths that release the handle: parse returned, open-by-path failed, or
\* the probe answered True
Releasing(f) ==
    /\ Ended(f)
    /\ \/ IsParse(f) /\ f.outcome = "returned"
       \/ OpenFailed(f)
       \/ IsProbe(f) /\ f.result = Some(TRUE)

\* C35: on every path of parse and can_parse that releases the handle, Close
\* is called exactly once and before Delete, Delete is called exactly once,
\* and no native call is made on the handle after Delete; the open-failure
\* path does not reach the final Close and Delete a second time.
C35_ReleasedExactlyOnce ==
    \A t \in Threads :
        LET f == inv[t]
        IN  /\ Cardinality(Calls(f, "Close")) <= 1
            /\ Cardinality(Calls(f, "Delete")) <= 1
            /\ \A k \in Calls(f, "Delete") :
                  /\ k = Len(f.calls)
                  /\ f.calls[k - 1].f = "Close"
                  /\ f.calls[k].h = f.handle /\ f.calls[k - 1].h = f.handle
            /\ Releasing(f)
                  => /\ Cardinality(Calls(f, "Close")) = 1
                     /\ Cardinality(Calls(f, "Delete")) = 1
                     /\ handleState[f.handle] = "deleted"
            /\ OpenFailed(f) => f.pc \in {"fail_close", "fail_delete", "done"}

\* a failed open-by-path ended with Close and Delete as its last two calls
C35_Witness ==
    \E t \in Threads :
        /\ OpenFailed(inv[t]) /\ Releasing(inv[t])
        /\ inv[t].outcome = "FileNotFoundError"
        /\ inv[t].calls[Len(inv[t].calls)].f = "Delete"
        /\ Cardinality(Calls(inv[t], "Close")) = 1

(***************************************************************************)
(* Properties of the two loops of Track.__init__                           *)
(***************************************************************************)
\* the first loop is running or has just ended, and no pass has run yet
Consuming == bld.pc = "children" /\ bld.ri = 1
\* the children of the current track element consumed so far
Consumed == SubSeq(bld.found[bld.ti].kids, 1, bld.ci - 1)
\* the raw values of the occurrences of a name from the first one that has
\* text: that one is the scalar the later ones repeat
FromFirstText(kids, name) ==
    LET occ == Occurrences(kids, name)
        texts == { i \in 1..Len(occ) : ~IsNone(occ[i]) }
        j == CHOOSE i \in texts : \A k \in texts : i <= k
    IN  IF texts = {} THEN <<>>
        ELSE [i \in 1..(Len(occ) - j + 1) |-> TextValue(occ[j + i - 1])]

Passing ==
    /\ bld.pc = "children"
    /\ bld.ci > Len(bld.found[bld.ti].kids)
    /\ bld.ri <= Len(bld.rep)
Queued == bld.rep[bld.ri]
CoercibleValue(v) == v.t = "int" \/ (v.t = "str" /\ IsIntLiteral(v.s))
IntegerOf(v) == IF v.t = "int" THEN v.n ELSE IntLiteralValue(v.s)

\* C37: in the disambiguation pass for a repeated name whose scalar is not
\* integer-coercible, the other_ list is scanned in order; the first
\* integer-coercible element becomes the new scalar as an integer and the old
\* scalar text is appended at the end of the other_ list; if no element is
\* coercible, the scalar keeps its original text and the other_ list is
\* unchanged.
C37_PassPromotesFirstCoercible ==
    [][ (Passing /\ ~CoercibleValue(GetAttr(bld.rec, Queued[1])))
          => LET scalar == GetAttr(bld.rec, Queued[1])
                 items == GetAttr(bld.rec, Queued[2]).items
                 hits == { i \in 1..Len(items) : CoercibleValue(items[i]) }
                 first == CHOOSE i \in hits : \A k \in hits : i <= k
             IN  /\ bld'.pc = "children"
                 /\ IF hits = {}
                    THEN bld'.rec = bld.rec
                    ELSE /\ GetAttr(bld'.rec, Queued[1]) = VInt(IntegerOf(items[first]))
                         /\ GetAttr(bld'.rec, Queued[2]) = VList(Append(items, scalar)) ]_vars

\* the children of the current track element are all consumed
ChildrenDone == bld.pc = "children" /\ bld.ci > Len(bld.found[bld.ti].kids)
TimesQueued(name) == Cardinality({ n \in 1..Len(bld.rep) : bld.rep[n][1] = name })
\* the pair the next turn of the second loop takes was already taken once
PassedBefore == \E n \in 1..(bld.ri - 1) : bld.rep[n] = Queued

\* C38: for a name with k >= 2 occurrences the constructor queues the
\* disambiguation pass k - 1 times, and the resulting record is the same as if
\* the pass had run once for that name: after the first pass, further passes
\* change neither the scalar nor the other_ list.
C38_PassesAreIdempotent ==
    /\ ChildrenDone
          => \A name \in NamesOf(bld.found[bld.ti]) :
                Len(Occurrences(bld.found[bld.ti].kids, name)) >= 2
                    => TimesQueued(name) = Len(Occurrences(bld.found[bld.ti].kids, name)) - 1
    /\ (Passing /\ PassedBefore)
          => /\ Disambiguate(bld, Queued).rec = bld.rec
             /\ Disambiguate(bld, Queued).exc = "none"

\* every track element of the document carries a type attribute
AllTyped ==
    ~IsNone(doc) /\ WellFormed(Val(doc))
    /\ \A i \in 1..Len(FindTracks(Val(doc))) : ~IsNone(FindTracks(Val(doc))[i].type)

\* C39: for every well-formed document whose track elements each carry a type
\* attribute, model construction completes without raising, for any child
\* elements: also when a repeated attribute has an occurrence with empty text,
\* when a child's name coincides with a member of the record, and when an
\* element named other_<name> coexists with repeats of <name>.
C39_ConstructionNeverRaises ==
    AllTyped => bld.pc # "raised" /\ bld.exc = "none"

\* SpecQueries: calls one after another on a finished model of two tracks
InitQueries ==
    /\ EngineInit
    /\ library = Newest
    /\ job = None
    /\ doc \in { Some(d) : d \in QueryDocs }
    /\ bld = IdleBuild
    /\ model = None

SpecQueries == InitQueries /\ [][NextCalls]_vars

\* the read of a name the record does not hold was the last call made
AbsentRead ==
    /\ bld.out.op = "getattr"
    /\ bld.out.arg[2] \notin DOMAIN Val(model)[bld.out.arg[1]]
    /\ bld.out.arg[2] \notin ClassMembers

\* C40: after construction no query changes the model: a read of an attribute,
\* present or absent, a comparison, a pickle round trip, a filtered view,
\* to_data and to_json leave the track sequence and every record's mapping as
\* they were, and a filtered view called twice returns equal results.
C40_QueriesLeaveTheModel ==
    [][bld.pc = "done"
         => /\ model' = model
            /\ bld'.tracks = bld.tracks
            /\ (bld.out.op = "view" /\ bld'.out.op = "view" /\ bld'.out.arg = bld.out.arg)
                  => bld'.out.value = bld.out.value]_vars
C40_Witness ==
    bld.pc = "done" /\ AbsentRead /\ bld.out.value = VNone /\ model = Some(bld.tracks)

====
